---- MODULE Spec2Model ----
(***************************************************************************)
(* A model of the CRM front end (React pages talking to a hosted          *)
(* relational backend) and of its category helper.                        *)
(*                                                                         *)
(* The module holds several state machines:                                *)
(*   SpecCat   the pure functions of utils/categoryUtils                   *)
(*   SpecList  the list pages (fetch, fallback, change subscription)       *)
(*   SpecDash  Dashboard.fetchDashboardData                                *)
(*   SpecCrud  the forms' handleSubmit and the pages' handleDelete         *)
(*   SpecDb    the database: policies, foreign keys, statements            *)
(*   SpecOpForm  OperatorForm and the statements on operators              *)
(*   SpecView  the rows a list page displays (search, dropdown filters)    *)
(*   SpecSort  the sort state of a list page                               *)
(*   SpecTotals  the view clients_with_devices over its three tables       *)
(*   SpecSearch  the search box of the Dashboard                           *)
(*   SpecFiles   DeviceForm.handleFileUpload and handleDeleteFile          *)
(*   SpecDetail  handleDelete of the detail pages, on the database         *)
(*   SpecAddr    the address of a client through ClientForm and DeviceForm *)
(* Each specification moves the variables of its own part and leaves the  *)
(* others at their initial value.                                          *)
(***************************************************************************)
EXTENDS Integers, Sequences, FiniteSets, TLC

(***************************************************************************)
(* Part 1: utils/categoryUtils.                                            *)
(* A JavaScript string is a sequence of characters, each character a       *)
(* one-token string ("e_acute" stands for the letter e with an acute       *)
(* accent, "e_grave" for e with a grave accent).  A JavaScript value is a  *)
(* record [type, text]: text is the string itself for a string, and the    *)
(* result of String(v) for any other value.                                *)
(***************************************************************************)
VARIABLES catArg, codeArg, termArg, catRet

catVars == <<catArg, codeArg, termArg, catRet>>

\* The state of Part 2 (a list page).
VARIABLES page, phase, subscribed, rows, loading, calls, tbl, events,
          nChanges, nCallbacks, step

listVars == <<page, phase, subscribed, rows, loading, calls, tbl, events,
              nChanges, nCallbacks, step>>

\* The state of Part 3 (the Dashboard).
VARIABLES dPhase, counts, recentDevices, recentInterventions, dLoading, dq,
          interv, dChanges, dstep

dashVars == <<dPhase, counts, recentDevices, recentInterventions, dLoading, dq,
              interv, dChanges, dstep>>

\* The state of Part 4 (the forms' handleSubmit and the pages' handleDelete).
VARIABLES cScreen, cId, cPhase, cRoute, formData, cLoading, cError, cAlerts,
          cConsole, cShown, cLoad, cReqs, crudTable, nInvocations, nWrites,
          cstep

crudVars == <<cScreen, cId, cPhase, cRoute, formData, cLoading, cError, cAlerts,
              cConsole, cShown, cLoad, cReqs, crudTable, nInvocations, nWrites,
              cstep>>

\* The state of Part 5 (the database).
VARIABLES db, seq, session, dbOps, dbstep

dbVars == <<db, seq, session, dbOps, dbstep>>

\* The state of Part 6 (OperatorForm).
VARIABLES opForm

opFormVars == <<opForm>>

\* The state of Part 7 (what a list page displays).
VARIABLES vPage, vRows, vDevices, vSearchTerm, selected

viewVars == <<vPage, vRows, vDevices, vSearchTerm, selected>>

\* The state of Part 8 (the sort state of a list page).
VARIABLES sortPage, sortField, sortDirection, sortClicks, sortArg, sortRows

sortVars == <<sortPage, sortField, sortDirection, sortClicks, sortArg, sortRows>>

\* The state of Part 9 (the tables behind the view clients_with_devices).
VARIABLES twClients, twDevices, twQuotes, twSeq, twOps

totalsVars == <<twClients, twDevices, twQuotes, twSeq, twOps>>

\* The state of Part 10 (the search box of the Dashboard).
VARIABLES dashSearchTerm, searchResults, searches, nSearches, searchStep

searchVars == <<dashSearchTerm, searchResults, searches, nSearches,
  searchStep>>

\* The state of Part 11 (the files of a device).
VARIABLES fileRows, objects, fileSeq, fileCall, nFileCalls, fileError,
  fileFailures

filesVars == <<fileRows, objects, fileSeq, fileCall, nFileCalls, fileError,
  fileFailures>>

\* The state of Part 12 (a detail page and its delete button).
VARIABLES detPage, detId, detRoute, detStep

detailVars == <<detPage, detId, detRoute, detStep>>

\* The state of Part 13 (the address of a client).
VARIABLES addrClient, addrForm, addrStep

addrVars == <<addrClient, addrForm, addrStep>>

\* What the functions of Part 1 leave alone.
notCat == <<listVars, dashVars, crudVars, dbVars, opFormVars,
  viewVars, sortVars, totalsVars, searchVars, filesVars, detailVars,
  addrVars>>

\* What a list page leaves alone.
notList == <<catVars, dashVars, crudVars, dbVars, opFormVars,
  viewVars, sortVars, totalsVars, searchVars, filesVars, detailVars,
  addrVars>>

\* What the Dashboard leaves alone.
notDash == <<catVars, listVars, crudVars, dbVars, opFormVars,
  viewVars, sortVars, totalsVars, searchVars, filesVars, detailVars,
  addrVars>>

\* What a form or a detail page leaves alone.
notCrud == <<catVars, listVars, dashVars, dbVars, opFormVars,
  viewVars, sortVars, totalsVars, searchVars, filesVars, detailVars,
  addrVars>>

\* What OperatorForm, which writes to the database, leaves alone.
notOpForm == <<catVars, listVars, dashVars, crudVars,
  viewVars, sortVars, totalsVars, searchVars, filesVars, detailVars,
  addrVars>>

\* What the displayed rows of a list page leave alone.
notView == <<catVars, listVars, dashVars, crudVars, dbVars, opFormVars, sortVars,
  totalsVars, searchVars, filesVars, detailVars, addrVars>>

\* What the sort state leaves alone.
notSort == <<catVars, listVars, dashVars, crudVars, dbVars, opFormVars, viewVars,
  totalsVars, searchVars, filesVars, detailVars, addrVars>>

\* What the database leaves alone.
notDb == <<catVars, listVars, dashVars, crudVars, opFormVars,
  viewVars, sortVars, totalsVars, searchVars, filesVars, detailVars,
  addrVars>>

\* What the statements of Part 9 leave alone.
notTotals == <<catVars, listVars, dashVars, crudVars, dbVars, opFormVars,
  viewVars, sortVars, searchVars, filesVars, detailVars, addrVars>>

\* What the search box of the Dashboard leaves alone.
notSearch == <<catVars, listVars, dashVars, crudVars, dbVars, opFormVars,
  viewVars, sortVars, totalsVars, filesVars, detailVars, addrVars>>

\* What the file handlers of DeviceForm leave alone.
notFiles == <<catVars, listVars, dashVars, crudVars, dbVars, opFormVars,
  viewVars, sortVars, totalsVars, searchVars, detailVars, addrVars>>

\* What a detail page, which writes to the database, leaves alone.
notDetail == <<catVars, listVars, dashVars, crudVars, opFormVars, viewVars,
  sortVars, totalsVars, searchVars, filesVars, addrVars>>

\* What the client forms leave alone.
notAddr == <<catVars, listVars, dashVars, crudVars, dbVars, opFormVars,
  viewVars, sortVars, totalsVars, searchVars, filesVars, detailVars>>

\* Longest search term drawn as an input of searchInCategoryAbbreviations.
MaxTermLen == 2

Str(s) == [type |-> "string", text |-> s]

Undefined == [type |-> "undefined", text |-> <<"u", "n", "d", "e", "f", "i", "n", "e", "d">>]

\* The object literal, as the ordered list of its own properties.
categoryDiminutives ==
  << [key |-> <<"I", "n", "f", "o", "r", "m", "a", "t", "i", "q", "u", "e">>,
      value |-> <<"I", "N", "F">>],
     [key |-> <<"L", "u", "m", "i", "e_grave", "r", "e">>,
      value |-> <<"L", "U", "M">>],
     [key |-> <<"V", "i", "d", "e_acute", "o", "-", "P", "h", "o", "t", "o">>,
      value |-> <<"V", "I", "D">>],
     [key |-> <<"A", "p", "p", "a", "r", "e", "i", "l", "s", "-", "N", "u", "m", "e_acute", "r", "i", "q", "u", "e", "s">>,
      value |-> <<"N", "U", "M">>],
     [key |-> <<"S", "o", "n">>,
      value |-> <<"S", "O", "N">>],
     [key |-> <<"E", "l", "e", "c", "t", "r", "o", " ", "M", "e_acute", "n", "a", "g", "e", "r">>,
      value |-> <<"E", "L", "E">>],
     [key |-> <<"S", "e", "r", "v", "e", "u", "r", "-", "S", "t", "o", "c", "k", "a", "g", "e">>,
      value |-> <<"S", "R", "V">>],
     [key |-> <<"p", "e_acute", "r", "i", "p", "h", "e_acute", "r", "i", "q", "u", "e">>,
      value |-> <<"P", "R", "H">>],
     [key |-> <<"i", "m", "p", "r", "i", "m", "a", "n", "t", "e">>,
      value |-> <<"I", "M", "P">>] >>

\* What an object literal inherits: a property read that finds no own
\* property continues in Object.prototype.  Two of its members are modelled.
ObjectPrototype ==
  { [key |-> <<"c", "o", "n", "s", "t", "r", "u", "c", "t", "o", "r">>,
     value |-> [type |-> "function",
                text |-> <<"f", "u", "n", "c", "t", "i", "o", "n", " ", "O", "b", "j", "e", "c", "t", "(", ")", " ", "{", " ", "[", "n", "a", "t", "i", "v", "e", " ", "c", "o", "d", "e", "]", " ", "}">>]],
    [key |-> <<"t", "o", "S", "t", "r", "i", "n", "g">>,
     value |-> [type |-> "function",
                text |-> <<"f", "u", "n", "c", "t", "i", "o", "n", " ", "t", "o", "S", "t", "r", "i", "n", "g", "(", ")", " ", "{", " ", "[", "n", "a", "t", "i", "v", "e", " ", "c", "o", "d", "e", "]", " ", "}">>]] }

\* categoryDiminutives[key]: the own property, else the inherited one, else
\* undefined.
GetProperty(key) ==
  IF \E i \in DOMAIN categoryDiminutives : categoryDiminutives[i].key = key
  THEN Str(categoryDiminutives[CHOOSE i \in DOMAIN categoryDiminutives :
                                 categoryDiminutives[i].key = key].value)
  ELSE IF \E p \in ObjectPrototype : p.key = key
       THEN (CHOOSE p \in ObjectPrototype : p.key = key).value
       ELSE Undefined

\* The truthiness the || operator tests.
ToBoolean(v) ==
  CASE v.type = "undefined" -> FALSE
    [] v.type = "string"    -> v.text # <<>>
    [] OTHER                -> TRUE

\* The string a template literal puts in place of ${v}.
JsToString(v) == v.text

toLowerCaseChar(c) ==
  CASE c = "A" -> "a" [] c = "B" -> "b" [] c = "C" -> "c" [] c = "D" -> "d"
    [] c = "E" -> "e" [] c = "F" -> "f" [] c = "G" -> "g" [] c = "H" -> "h"
    [] c = "I" -> "i" [] c = "J" -> "j" [] c = "K" -> "k" [] c = "L" -> "l"
    [] c = "M" -> "m" [] c = "N" -> "n" [] c = "O" -> "o" [] c = "P" -> "p"
    [] c = "Q" -> "q" [] c = "R" -> "r" [] c = "S" -> "s" [] c = "T" -> "t"
    [] c = "U" -> "u" [] c = "V" -> "v" [] c = "W" -> "w" [] c = "X" -> "x"
    [] c = "Y" -> "y" [] c = "Z" -> "z"
    [] c = "E_acute" -> "e_acute" [] c = "E_grave" -> "e_grave"
    [] OTHER -> c

toLowerCase(s) == [i \in 1..Len(s) |-> toLowerCaseChar(s[i])]

\* String.prototype.includes: t occurs in s as a contiguous run.
includes(s, t) ==
  \E i \in 0..(Len(s) - Len(t)) : SubSeq(s, i + 1, i + Len(t)) = t

getCategoryAbbreviation(category) ==
  LET v == GetProperty(category)
  IN  IF ToBoolean(v) THEN v ELSE Str(category)

getProductCode(category, code) ==
  Str(JsToString(getCategoryAbbreviation(category)) \o <<"-">> \o code)

\* The search as it would be with the term compared as typed.
searchInCategoryAbbreviations_caseSensitiveTerm(searchTerm) ==
  LET hits == SelectSeq(categoryDiminutives,
                LAMBDA e : \/ includes(toLowerCase(e.key), searchTerm)
                           \/ includes(toLowerCase(e.value), searchTerm))
  IN  [i \in 1..Len(hits) |-> hits[i].key]

searchInCategoryAbbreviations(searchTerm) ==
  LET term == toLowerCase(searchTerm)
      hits == SelectSeq(categoryDiminutives,
                LAMBDA e : \/ includes(toLowerCase(e.key), term)
                           \/ includes(toLowerCase(e.value), term))
  IN  [i \in 1..Len(hits) |-> hits[i].key]

\* Inputs.
SeqsUpTo(S, n) == UNION { [1..k -> S] : k \in 0..n }

CategoryLabels == { categoryDiminutives[i].key : i \in DOMAIN categoryDiminutives }

CategoryInputs ==
  CategoryLabels \cup
  { <<>>,
    <<"A", "u", "t", "r", "e">>,
    <<"I", "N", "F">>,
    <<"c", "o", "n", "s", "t", "r", "u", "c", "t", "o", "r">>,
    <<"t", "o", "S", "t", "r", "i", "n", "g">> }

CodeInputs == { <<>>, <<"A">>, <<"B", "1">> }

TermAlphabet == {"S", "R", "n", "i", "o"}

TermInputs == SeqsUpTo(TermAlphabet, MaxTermLen)

NoCall == [fn |-> "none", val |-> Undefined, list |-> <<>>]

CatInit ==
  /\ catArg \in CategoryInputs
  /\ codeArg \in CodeInputs
  /\ termArg \in TermInputs
  /\ catRet = NoCall

CatIdle ==
  /\ catArg = <<>>
  /\ codeArg = <<>>
  /\ termArg = <<>>
  /\ catRet = NoCall

CallGetCategoryAbbreviation ==
  /\ catRet' = [fn |-> "getCategoryAbbreviation",
                val |-> getCategoryAbbreviation(catArg), list |-> <<>>]
  /\ UNCHANGED <<catArg, codeArg, termArg>>
  /\ UNCHANGED notCat

CallGetProductCode ==
  /\ catRet' = [fn |-> "getProductCode",
                val |-> getProductCode(catArg, codeArg), list |-> <<>>]
  /\ UNCHANGED <<catArg, codeArg, termArg>>
  /\ UNCHANGED notCat

CallSearchInCategoryAbbreviations ==
  /\ catRet' = [fn |-> "searchInCategoryAbbreviations",
                val |-> Undefined,
                list |-> searchInCategoryAbbreviations(termArg)]
  /\ UNCHANGED <<catArg, codeArg, termArg>>
  /\ UNCHANGED notCat

CatNext ==
  \/ CallGetCategoryAbbreviation
  \/ CallGetProductCode
  \/ CallSearchInCategoryAbbreviations

(***************************************************************************)
(* Part 2: the list pages (Devices, Clients, QuotesInvoices,              *)
(* Interventions, Operators).                                              *)
(* One page is on screen.  Its fetch function is asynchronous: a call      *)
(* issues a query, the backend answers it (with the relation's rows as    *)
(* they are at that moment, or with an error), and the call's continuation *)
(* runs when the answer arrives.  Calls may overlap.  Other users change   *)
(* the page's table meanwhile; the backend queues a notification for each  *)
(* change while the page's channel is subscribed.                          *)
(***************************************************************************)
\* Row ids of the page's table.
MaxRows == 2
\* Changes other users make to the table during one visit of the page.
MaxChanges == 1

Null == "null"

ListPages == {"Devices", "Clients", "QuotesInvoices", "Interventions", "Operators"}

\* The pages whose useEffect subscribes to a change channel.
SubscribingPages == {"Devices", "QuotesInvoices", "Interventions", "Operators"}

RowIds == 1..MaxRows

\* A row of the base table: its key and the rest of its columns.
BaseRow(i, p) == [id |-> i, payload |-> p]

\* What the joins find for a row (the related tables are not changed during
\* the visit): row 1 has an operator or client and two related rows, the other
\* rows have none.
RelatedName(i) == IF i = 1 THEN "Alice" ELSE Null

RelatedCount(i) == IF i = 1 THEN 2 ELSE 0

RelatedDate(i) == IF i = 1 THEN "2025-07-01" ELSE Null

\* Rows in the order .order('created_at', { ascending: false }) gives them
\* (ids are handed out in creation order).
RECURSIVE OrderDesc(_)
OrderDesc(S) ==
  IF S = {} THEN <<>>
  ELSE LET top == CHOOSE r \in S : \A o \in S : o.id <= r.id
       IN  <<top>> \o OrderDesc(S \ {top})

\* The relations the pages read.
devices_with_relations(t) ==
  LET all == OrderDesc(t)
  IN  [k \in 1..Len(all) |->
         [id |-> all[k].id, payload |-> all[k].payload,
          operator_name |-> RelatedName(all[k].id),
          intervention_count |-> RelatedCount(all[k].id),
          last_intervention_date |-> RelatedDate(all[k].id)]]

clients_with_devices(t) ==
  LET all == OrderDesc(t)
  IN  [k \in 1..Len(all) |->
         [id |-> all[k].id, payload |-> all[k].payload,
          device_count |-> RelatedCount(all[k].id),
          quote_invoice_count |-> RelatedCount(all[k].id),
          total_amount |-> 10 * RelatedCount(all[k].id)]]

quotes_invoices_with_relations(t) ==
  LET all == OrderDesc(t)
  IN  [k \in 1..Len(all) |->
         [id |-> all[k].id, payload |-> all[k].payload,
          client_name |-> RelatedName(all[k].id)]]

\* interventions with the embedded device and operator.
interventions_embedded(t) ==
  LET all == OrderDesc(t)
  IN  [k \in 1..Len(all) |->
         [id |-> all[k].id, payload |-> all[k].payload,
          device |-> [brand |-> RelatedName(all[k].id)],
          operator |-> [full_name |-> RelatedName(all[k].id)]]]

\* The answer to .from(relation).select(...): the relation's rows now.
Select(relation, t) ==
  CASE relation = "devices_with_relations"         -> devices_with_relations(t)
    [] relation = "clients_with_devices"           -> clients_with_devices(t)
    [] relation = "quotes_invoices_with_relations" -> quotes_invoices_with_relations(t)
    [] relation = "interventions"                  -> interventions_embedded(t)
    [] OTHER                                       -> OrderDesc(t)

\* One call of a page's fetch function: the relation its pending query
\* reads, and the answer once the backend has given it.
Call(relation) ==
  [from |-> relation, answered |-> FALSE, ok |-> FALSE, data |-> <<>>]

Returned == [from |-> "", answered |-> FALSE, ok |-> FALSE, data |-> <<>>]

NoStep == [kind |-> "none", call |-> 0, data |-> <<>>]

FirstRelation(p) ==
  CASE p = "Devices"        -> "devices_with_relations"
    [] p = "Clients"        -> "clients_with_devices"
    [] p = "QuotesInvoices" -> "quotes_invoices_with_relations"
    [] p = "Interventions"  -> "interventions"
    [] OTHER                -> "operators"

ListInit ==
  /\ page \in ListPages
  /\ phase = "created"
  /\ subscribed = FALSE
  /\ rows = <<>>
  /\ loading = TRUE
  /\ calls = <<>>
  /\ tbl = { BaseRow(i, 0) : i \in 1..(MaxRows - 1) }
  /\ events = <<>>
  /\ nChanges = 0
  /\ nCallbacks = 0
  /\ step = NoStep

ListIdle ==
  /\ page = "none"
  /\ phase = "created"
  /\ subscribed = FALSE
  /\ rows = <<>>
  /\ loading = TRUE
  /\ calls = <<>>
  /\ tbl = {}
  /\ events = <<>>
  /\ nChanges = 0
  /\ nCallbacks = 0
  /\ step = NoStep

\* The first statement of every fetch function: issue the first query.
StartFetch == Append(calls, Call(FirstRelation(page)))

\* The mount effect: fetch, and on the subscribing pages subscribe.
Mount ==
  /\ phase = "created"
  /\ phase' = "mounted"
  /\ calls' = StartFetch
  /\ subscribed' = (page \in SubscribingPages)
  /\ step' = [kind |-> "mount", call |-> Len(calls) + 1, data |-> <<>>]
  /\ UNCHANGED <<page, rows, loading, tbl, events, nChanges, nCallbacks>>
  /\ UNCHANGED notList

\* The cleanup of the mount effect as it would be without unsubscribe().
Unmount_keepSubscription ==
  /\ phase = "mounted"
  /\ phase' = "unmounted"
  /\ step' = [kind |-> "unmount", call |-> 0, data |-> <<>>]
  /\ UNCHANGED <<page, subscribed, rows, loading, calls, tbl, events, nChanges,
                 nCallbacks>>
  /\ UNCHANGED notList

\* The cleanup of the mount effect.
Unmount ==
  /\ phase = "mounted"
  /\ phase' = "unmounted"
  /\ subscribed' = FALSE
  /\ step' = [kind |-> "unmount", call |-> 0, data |-> <<>>]
  /\ UNCHANGED <<page, rows, loading, calls, tbl, events, nChanges, nCallbacks>>
  /\ UNCHANGED notList

\* The channel's callback: event '*' runs it for INSERT, UPDATE and DELETE.
OnChange ==
  /\ subscribed
  /\ events # <<>>
  /\ events' = Tail(events)
  /\ nCallbacks' = nCallbacks + 1
  /\ calls' = StartFetch
  /\ step' = [kind |-> "change", call |-> Len(calls) + 1, data |-> <<>>]
  /\ UNCHANGED <<page, phase, subscribed, rows, loading, tbl, nChanges>>
  /\ UNCHANGED notList

\* Another user's write to the page's table, and its notification.
Notify(kind) == IF subscribed THEN Append(events, kind) ELSE events

BackendInsert(i) ==
  /\ nChanges < MaxChanges
  /\ \A r \in tbl : r.id # i
  /\ tbl' = tbl \cup {BaseRow(i, 0)}
  /\ events' = Notify("INSERT")
  /\ nChanges' = nChanges + 1
  /\ UNCHANGED <<page, phase, subscribed, rows, loading, calls, nCallbacks, step>>
  /\ UNCHANGED notList

BackendUpdate(i) ==
  /\ nChanges < MaxChanges
  /\ \E r \in tbl : r.id = i
  /\ tbl' = { IF r.id = i THEN BaseRow(i, 1 - r.payload) ELSE r : r \in tbl }
  /\ events' = Notify("UPDATE")
  /\ nChanges' = nChanges + 1
  /\ UNCHANGED <<page, phase, subscribed, rows, loading, calls, nCallbacks, step>>
  /\ UNCHANGED notList

BackendDelete(i) ==
  /\ nChanges < MaxChanges
  /\ \E r \in tbl : r.id = i
  /\ tbl' = { r \in tbl : r.id # i }
  /\ events' = Notify("DELETE")
  /\ nChanges' = nChanges + 1
  /\ UNCHANGED <<page, phase, subscribed, rows, loading, calls, nCallbacks, step>>
  /\ UNCHANGED notList

\* The backend answers the pending query of call c: the rows, or an error.
BackendAnswer(c, success) ==
  /\ c \in DOMAIN calls
  /\ calls[c].from # ""
  /\ ~calls[c].answered
  /\ calls' = [calls EXCEPT ![c] =
                 [from |-> calls[c].from, answered |-> TRUE, ok |-> success,
                  data |-> IF success THEN Select(calls[c].from, tbl) ELSE <<>>]]
  /\ UNCHANGED <<page, phase, subscribed, rows, loading, tbl, events, nChanges,
                 nCallbacks, step>>
  /\ UNCHANGED notList

Answered(c, relation) ==
  /\ c \in DOMAIN calls
  /\ calls[c].from = relation
  /\ calls[c].answered

\* fetchDevices as it would be if the answer of a call that is no longer the
\* latest one issued were dropped.
fetchDevices_view_latestOnly(c) ==
  /\ page = "Devices"
  /\ Answered(c, "devices_with_relations")
  /\ IF calls[c].ok
     THEN /\ rows' = IF c = Len(calls) THEN calls[c].data ELSE rows
          /\ loading' = FALSE
          /\ calls' = [calls EXCEPT ![c] = Returned]
          /\ step' = [kind |-> "viewOk", call |-> c, data |-> calls[c].data]
     ELSE /\ calls' = [calls EXCEPT ![c] = Call("devices")]
          /\ step' = [kind |-> "viewError", call |-> c, data |-> <<>>]
          /\ UNCHANGED <<rows, loading>>
  /\ UNCHANGED <<page, phase, subscribed, tbl, events, nChanges, nCallbacks>>
  /\ UNCHANGED notList

\* Devices.fetchDevices, after the view's answer.
fetchDevices_view(c) ==
  /\ page = "Devices"
  /\ Answered(c, "devices_with_relations")
  /\ IF calls[c].ok
     THEN /\ rows' = calls[c].data
          /\ loading' = FALSE
          /\ calls' = [calls EXCEPT ![c] = Returned]
          /\ step' = [kind |-> "viewOk", call |-> c, data |-> calls[c].data]
     ELSE /\ calls' = [calls EXCEPT ![c] = Call("devices")]
          /\ step' = [kind |-> "viewError", call |-> c, data |-> <<>>]
          /\ UNCHANGED <<rows, loading>>
  /\ UNCHANGED <<page, phase, subscribed, tbl, events, nChanges, nCallbacks>>
  /\ UNCHANGED notList

\* The fallback as it would be with the rows stored as the table gives them.
fetchDevices_fallback_untransformed(c) ==
  /\ page = "Devices"
  /\ Answered(c, "devices")
  /\ rows' = calls[c].data
  /\ loading' = FALSE
  /\ calls' = [calls EXCEPT ![c] = Returned]
  /\ step' = [kind |-> IF calls[c].ok THEN "fallbackOk" ELSE "fallbackError",
              call |-> c, data |-> calls[c].data]
  /\ UNCHANGED <<page, phase, subscribed, tbl, events, nChanges, nCallbacks>>
  /\ UNCHANGED notList

\* Devices.fetchDevices, after the devices table's answer.
fetchDevices_fallback(c) ==
  /\ page = "Devices"
  /\ Answered(c, "devices")
  /\ IF calls[c].ok
     THEN rows' = [k \in 1..Len(calls[c].data) |->
                     [id |-> calls[c].data[k].id,
                      payload |-> calls[c].data[k].payload,
                      operator_name |-> Null,
                      intervention_count |-> 0,
                      last_intervention_date |-> Null]]
     ELSE rows' = <<>>
  /\ loading' = FALSE
  /\ calls' = [calls EXCEPT ![c] = Returned]
  /\ step' = [kind |-> IF calls[c].ok THEN "fallbackOk" ELSE "fallbackError",
              call |-> c, data |-> calls[c].data]
  /\ UNCHANGED <<page, phase, subscribed, tbl, events, nChanges, nCallbacks>>
  /\ UNCHANGED notList

\* Clients.fetchClients, after the view's answer.
fetchClients_view(c) ==
  /\ page = "Clients"
  /\ Answered(c, "clients_with_devices")
  /\ IF calls[c].ok
     THEN /\ rows' = calls[c].data
          /\ loading' = FALSE
          /\ calls' = [calls EXCEPT ![c] = Returned]
          /\ step' = [kind |-> "viewOk", call |-> c, data |-> calls[c].data]
     ELSE /\ calls' = [calls EXCEPT ![c] = Call("clients")]
          /\ step' = [kind |-> "viewError", call |-> c, data |-> <<>>]
          /\ UNCHANGED <<rows, loading>>
  /\ UNCHANGED <<page, phase, subscribed, tbl, events, nChanges, nCallbacks>>
  /\ UNCHANGED notList

\* Clients.fetchClients, after the clients table's answer.
fetchClients_fallback(c) ==
  /\ page = "Clients"
  /\ Answered(c, "clients")
  /\ rows' = IF calls[c].ok THEN calls[c].data ELSE <<>>
  /\ loading' = FALSE
  /\ calls' = [calls EXCEPT ![c] = Returned]
  /\ step' = [kind |-> IF calls[c].ok THEN "fallbackOk" ELSE "fallbackError",
              call |-> c, data |-> calls[c].data]
  /\ UNCHANGED <<page, phase, subscribed, tbl, events, nChanges, nCallbacks>>
  /\ UNCHANGED notList

\* QuotesInvoices.fetchQuotesInvoices, after the view's answer: the catch
\* block only logs.
fetchQuotesInvoices_view(c) ==
  /\ page = "QuotesInvoices"
  /\ Answered(c, "quotes_invoices_with_relations")
  /\ rows' = IF calls[c].ok THEN calls[c].data ELSE rows
  /\ loading' = FALSE
  /\ calls' = [calls EXCEPT ![c] = Returned]
  /\ step' = [kind |-> IF calls[c].ok THEN "viewOk" ELSE "viewError",
              call |-> c, data |-> calls[c].data]
  /\ UNCHANGED <<page, phase, subscribed, tbl, events, nChanges, nCallbacks>>
  /\ UNCHANGED notList

\* Interventions.fetchInterventions, after the answer: the rows with the
\* embedded columns flattened, or the empty list.
fetchInterventions_table(c) ==
  /\ page = "Interventions"
  /\ Answered(c, "interventions")
  /\ IF calls[c].ok
     THEN rows' = [k \in 1..Len(calls[c].data) |->
                     [id |-> calls[c].data[k].id,
                      payload |-> calls[c].data[k].payload,
                      device |-> calls[c].data[k].device,
                      operator |-> calls[c].data[k].operator,
                      device_brand |->
                        IF calls[c].data[k].device.brand = Null THEN ""
                        ELSE calls[c].data[k].device.brand,
                      operator_name |->
                        IF calls[c].data[k].operator.full_name = Null THEN ""
                        ELSE calls[c].data[k].operator.full_name]]
     ELSE rows' = <<>>
  /\ loading' = FALSE
  /\ calls' = [calls EXCEPT ![c] = Returned]
  /\ step' = [kind |-> IF calls[c].ok THEN "tableOk" ELSE "tableError",
              call |-> c, data |-> calls[c].data]
  /\ UNCHANGED <<page, phase, subscribed, tbl, events, nChanges, nCallbacks>>
  /\ UNCHANGED notList

\* Operators.fetchOperators, after the operators table's answer: the count
\* queries are issued for its rows, or the error is logged.
fetchOperators_table(c) ==
  /\ page = "Operators"
  /\ Answered(c, "operators")
  /\ IF calls[c].ok
     THEN /\ calls' = [calls EXCEPT ![c] =
                         [from |-> "counts", answered |-> FALSE, ok |-> FALSE,
                          data |-> calls[c].data]]
          /\ step' = [kind |-> "tableOk", call |-> c, data |-> calls[c].data]
          /\ UNCHANGED loading
     ELSE /\ calls' = [calls EXCEPT ![c] = Returned]
          /\ step' = [kind |-> "tableError", call |-> c, data |-> <<>>]
          /\ loading' = FALSE
  /\ UNCHANGED <<page, phase, subscribed, rows, tbl, events, nChanges, nCallbacks>>
  /\ UNCHANGED notList

\* The backend answers the count queries of call c (count, or an error
\* result that the code reads as 0).
BackendAnswerCounts(c, success) ==
  /\ c \in DOMAIN calls
  /\ calls[c].from = "counts"
  /\ ~calls[c].answered
  /\ calls' = [calls EXCEPT ![c].answered = TRUE, ![c].ok = success]
  /\ UNCHANGED <<page, phase, subscribed, rows, loading, tbl, events, nChanges,
                 nCallbacks, step>>
  /\ UNCHANGED notList

\* Operators.fetchOperators, after the count queries' answers.
fetchOperators_counts(c) ==
  /\ page = "Operators"
  /\ Answered(c, "counts")
  /\ rows' = [k \in 1..Len(calls[c].data) |->
                [id |-> calls[c].data[k].id,
                 payload |-> calls[c].data[k].payload,
                 device_count |->
                   IF calls[c].ok THEN RelatedCount(calls[c].data[k].id) ELSE 0,
                 intervention_count |->
                   IF calls[c].ok THEN RelatedCount(calls[c].data[k].id) ELSE 0]]
  /\ loading' = FALSE
  /\ calls' = [calls EXCEPT ![c] = Returned]
  /\ step' = [kind |-> "countsDone", call |-> c, data |-> calls[c].data]
  /\ UNCHANGED <<page, phase, subscribed, tbl, events, nChanges, nCallbacks>>
  /\ UNCHANGED notList

ListNext ==
  \/ Mount
  \/ Unmount
  \/ OnChange
  \/ \E i \in RowIds : BackendInsert(i)
  \/ \E i \in RowIds : BackendUpdate(i)
  \/ \E i \in RowIds : BackendDelete(i)
  \/ \E c \in 1..(MaxChanges + 1), success \in BOOLEAN : BackendAnswer(c, success)
  \/ \E c \in 1..(MaxChanges + 1), success \in BOOLEAN : BackendAnswerCounts(c, success)
  \/ \E c \in 1..(MaxChanges + 1) : fetchDevices_view(c)
  \/ \E c \in 1..(MaxChanges + 1) : fetchDevices_fallback(c)
  \/ \E c \in 1..(MaxChanges + 1) : fetchClients_view(c)
  \/ \E c \in 1..(MaxChanges + 1) : fetchClients_fallback(c)
  \/ \E c \in 1..(MaxChanges + 1) : fetchQuotesInvoices_view(c)
  \/ \E c \in 1..(MaxChanges + 1) : fetchInterventions_table(c)
  \/ \E c \in 1..(MaxChanges + 1) : fetchOperators_table(c)
  \/ \E c \in 1..(MaxChanges + 1) : fetchOperators_counts(c)

(***************************************************************************)
(* Part 3: Dashboard.fetchDashboardData, as the mount effect calls it.     *)
(* The call issues seven queries at once (Promise.all); the backend        *)
(* settles each in any order: with rows ("ok"), with an error result       *)
(* ("error": the promise resolves to {data: null, error}), or by           *)
(* rejecting the promise.  A promise's handlers run in the turn of the     *)
(* event loop that settles it, before any other answer arrives.  The two   *)
(* queries of the devices_with_relations view carry a .catch handler that  *)
(* queries the devices table.  Other users change the interventions table  *)
(* meanwhile.                                                              *)
(***************************************************************************)

\* Changes other users make to the interventions table during the call.
MaxDashChanges == 1

\* The id of the row another user inserts: one more than the changes allowed.
DashNewId == MaxDashChanges + 1

\* .limit(5) of the two "recent" queries.
RecentLimit == 5

DashQueries == {"devices", "interventions", "clients", "types", "statuses",
                "recentDevices", "recentInterventions"}

\* The queries written Promise.resolve(view query).catch(() => table query).
WithCatch == {"devices", "recentDevices"}

\* The devices table (not changed during the call).
DashDevices ==
  { [id |-> 1, category |-> "Informatique", external_condition |-> "Bon etat",
     in_stock |-> TRUE, brand |-> "Dell", model |-> "XPS"],
    [id |-> 2, category |-> "Son", external_condition |-> "Casse",
     in_stock |-> FALSE, brand |-> "Bose", model |-> "S1"] }

\* The number of rows of the clients table (not changed during the call).
DashClientCount == 2

EmptyCounts ==
  [devices |-> 0, activeInterventions |-> 0, clients |-> 0, monthlyRevenue |-> 0,
   devicesByCategory |-> <<>>, devicesByCondition |-> <<>>,
   interventionsByType |-> <<>>, interventionsByStatus |-> <<>>]

Query(st, v) == [state |-> st, via |-> v, data |-> <<>>, count |-> 0]

IdleQueries == [q \in DashQueries |-> Query("idle", "none")]

Take(sq, n) == SubSeq(sq, 1, IF Len(sq) < n THEN Len(sq) ELSE n)

\* The rows a query returns now.  via is "view" or "table" for the two
\* queries with a fallback.
DashSelect(q, via) ==
  LET devs == OrderDesc(DashDevices)
      viewDevs == [k \in 1..Len(devs) |->
                     [id |-> devs[k].id, category |-> devs[k].category,
                      external_condition |-> devs[k].external_condition,
                      in_stock |-> devs[k].in_stock, brand |-> devs[k].brand,
                      model |-> devs[k].model,
                      operator_name |-> RelatedName(devs[k].id)]]
      ivs == OrderDesc(interv)
  IN  CASE q = "devices"       -> IF via = "view" THEN viewDevs ELSE devs
        [] q = "recentDevices" -> Take(IF via = "view" THEN viewDevs ELSE devs,
                                       RecentLimit)
        [] q = "interventions" -> ivs
        [] q = "types"         -> [k \in 1..Len(ivs) |-> [type |-> ivs[k].type]]
        [] q = "statuses"      -> [k \in 1..Len(ivs) |-> [status |-> ivs[k].status]]
        [] q = "recentInterventions" ->
             Take([k \in 1..Len(ivs) |->
                     [id |-> ivs[k].id, type |-> ivs[k].type,
                      status |-> ivs[k].status,
                      device |-> "device", operator |-> "operator"]],
                  RecentLimit)
        [] OTHER               -> <<>>

\* The reduce() loops: the number of rows per value of a column, rows with a
\* falsy value skipped.
CountBy(sq, col) ==
  LET keys == { sq[k][col] : k \in 1..Len(sq) } \ {Null, ""}
  IN  [key \in keys |-> Cardinality({ k \in 1..Len(sq) : sq[k][col] = key })]

DashInit ==
  /\ dPhase = "created"
  /\ counts = EmptyCounts
  /\ recentDevices = <<>>
  /\ recentInterventions = <<>>
  /\ dLoading = TRUE
  /\ dq = IdleQueries
  /\ interv = {[id |-> 1, type |-> "Reparation", status |-> "En cours"]}
  /\ dChanges = 0
  /\ dstep = [kind |-> "none", devices |-> Query("idle", "none"),
              recent |-> Query("idle", "none")]

DashIdle ==
  /\ dPhase = "created"
  /\ counts = EmptyCounts
  /\ recentDevices = <<>>
  /\ recentInterventions = <<>>
  /\ dLoading = TRUE
  /\ dq = IdleQueries
  /\ interv = {}
  /\ dChanges = 0
  /\ dstep = [kind |-> "none", devices |-> Query("idle", "none"),
              recent |-> Query("idle", "none")]

\* The mount effect: fetchDashboardData up to its await (the counters are
\* reset and the seven queries issued).
DashMount ==
  /\ dPhase = "created"
  /\ dPhase' = "mounted"
  /\ counts' = EmptyCounts
  /\ recentDevices' = <<>>
  /\ recentInterventions' = <<>>
  /\ dq' = [q \in DashQueries |->
              Query("pending", IF q \in WithCatch THEN "view" ELSE "table")]
  /\ dstep' = [dstep EXCEPT !.kind = "start"]
  /\ UNCHANGED <<dLoading, interv, dChanges>>
  /\ UNCHANGED notDash

\* The queries after the backend has settled query q with rows ("ok") or with
\* an error result ("error").
Settle(q, outcome) ==
  [dq EXCEPT ![q] =
     [state |-> outcome, via |-> dq[q].via,
      data |-> IF outcome = "ok" THEN DashSelect(q, dq[q].via) ELSE <<>>,
      count |-> IF outcome = "ok" /\ q = "clients" THEN DashClientCount ELSE 0]]

\* The backend settles a pending query while others are still pending: its
\* promise resolves, and Promise.all keeps waiting.
DashBackendAnswer(q, outcome) ==
  /\ dq[q].state = "pending"
  /\ \E q2 \in DashQueries : Settle(q, outcome)[q2].state = "pending"
  /\ dq' = Settle(q, outcome)
  /\ UNCHANGED <<dPhase, counts, recentDevices, recentInterventions, dLoading,
                 interv, dChanges, dstep>>
  /\ UNCHANGED notDash

\* The promise of a view query is rejected: its .catch handler runs (in the
\* same turn of the event loop) and queries the devices table.
fetchDashboardData_catchView(q) ==
  /\ q \in WithCatch
  /\ dq[q].via = "view"
  /\ dq[q].state = "pending"
  /\ dq' = [dq EXCEPT ![q] = Query("pending", "table")]
  /\ UNCHANGED <<dPhase, counts, recentDevices, recentInterventions, dLoading,
                 interv, dChanges, dstep>>
  /\ UNCHANGED notDash

\* The last pending query is settled: Promise.all resolves and
\* fetchDashboardData continues after the await.
fetchDashboardData_then(q, outcome) ==
  /\ dq[q].state = "pending"
  /\ \A q2 \in DashQueries : Settle(q, outcome)[q2].state \in {"ok", "error"}
  /\ LET res == Settle(q, outcome)
         validDevices == res["devices"].data
         validInterventions == res["interventions"].data
         activeInterventions ==
           SelectSeq(validInterventions, LAMBDA i : i.status = "En cours")
     IN  /\ counts' =
              [devices |-> Len(SelectSeq(validDevices, LAMBDA d : d.in_stock)),
               activeInterventions |-> Len(activeInterventions),
               clients |-> res["clients"].count,
               monthlyRevenue |-> 0,
               devicesByCategory |-> CountBy(validDevices, "category"),
               devicesByCondition |-> CountBy(validDevices, "external_condition"),
               interventionsByType |-> CountBy(res["types"].data, "type"),
               interventionsByStatus |-> CountBy(res["statuses"].data, "status")]
         /\ recentDevices' = SelectSeq(res["recentDevices"].data,
                                LAMBDA d : d.brand # "" /\ d.model # "")
         /\ recentInterventions' = SelectSeq(res["recentInterventions"].data,
                                LAMBDA i : i.device # Null /\ i.operator # Null)
         /\ dstep' = [kind |-> "done", devices |-> res["devices"],
                      recent |-> res["recentDevices"]]
  /\ dLoading' = FALSE
  /\ dq' = IdleQueries
  /\ UNCHANGED <<dPhase, interv, dChanges>>
  /\ UNCHANGED notDash

\* A promise no .catch handler covers is rejected (a query without fallback,
\* or the fallback query itself): Promise.all rejects and the catch block of
\* fetchDashboardData runs.  The answers still to come are ignored.
fetchDashboardData_catch(q) ==
  /\ dq[q].state = "pending"
  /\ q \notin WithCatch \/ dq[q].via = "table"
  /\ counts' = EmptyCounts
  /\ recentDevices' = <<>>
  /\ recentInterventions' = <<>>
  /\ dLoading' = FALSE
  /\ dstep' = [kind |-> "failed", devices |-> dq["devices"],
               recent |-> dq["recentDevices"]]
  /\ dq' = IdleQueries
  /\ UNCHANGED <<dPhase, interv, dChanges>>
  /\ UNCHANGED notDash

\* Another user's write to the interventions table.
DashInsertIntervention ==
  /\ dChanges < MaxDashChanges
  /\ \A i \in interv : i.id # DashNewId
  /\ interv' = interv \cup
                  {[id |-> DashNewId, type |-> "Controle", status |-> "En cours"]}
  /\ dChanges' = dChanges + 1
  /\ UNCHANGED <<dPhase, counts, recentDevices, recentInterventions, dLoading,
                 dq, dstep>>
  /\ UNCHANGED notDash

DashUpdateIntervention(id) ==
  /\ dChanges < MaxDashChanges
  /\ \E i \in interv : i.id = id
  /\ interv' = { IF i.id = id
                 THEN [i EXCEPT !.status = IF i.status = "En cours"
                                           THEN "Termine" ELSE "En cours"]
                 ELSE i : i \in interv }
  /\ dChanges' = dChanges + 1
  /\ UNCHANGED <<dPhase, counts, recentDevices, recentInterventions, dLoading,
                 dq, dstep>>
  /\ UNCHANGED notDash

DashDeleteIntervention(id) ==
  /\ dChanges < MaxDashChanges
  /\ \E i \in interv : i.id = id
  /\ interv' = { i \in interv : i.id # id }
  /\ dChanges' = dChanges + 1
  /\ UNCHANGED <<dPhase, counts, recentDevices, recentInterventions, dLoading,
                 dq, dstep>>
  /\ UNCHANGED notDash

DashNext ==
  \/ DashMount
  \/ \E q \in DashQueries, outcome \in {"ok", "error"} :
       DashBackendAnswer(q, outcome)
  \/ \E q \in DashQueries : fetchDashboardData_catchView(q)
  \/ \E q \in DashQueries, outcome \in {"ok", "error"} :
       fetchDashboardData_then(q, outcome)
  \/ \E q \in DashQueries : fetchDashboardData_catch(q)
  \/ DashInsertIntervention
  \/ \E id \in 1..DashNewId : DashUpdateIntervention(id)
  \/ \E id \in 1..DashNewId : DashDeleteIntervention(id)

(***************************************************************************)
(* Part 4: saving and deleting.  One page is open: a form (handleSubmit    *)
(* inserts, or updates when the route has an id), a detail page            *)
(* (handleDelete deletes its record) or the Clients list (handleDelete     *)
(* deletes a row of the list).  A handler runs to its await, the backend   *)
(* settles the request (with success or with an error), and the handler    *)
(* continues in a later step; the user acts in between.  A state update    *)
(* of a page that is no longer mounted has no effect.                      *)
(***************************************************************************)

\* Invocations of handleSubmit or handleDelete by the user.
MaxClicks == 2

\* The values the user can enter into the form (0 is the initial form).
MaxFormValue == 1

\* The rows of the page's table at the start.
MaxCrudRows == 2

Forms == {"DeviceForm", "ClientForm", "OperatorForm", "QuoteInvoiceForm",
          "InterventionForm"}

Details == {"DeviceDetail", "ClientDetail", "OperatorDetail",
            "InterventionDetail", "QuoteInvoiceDetail"}

ClientsList == "Clients"

FormValues == 0..MaxFormValue

\* The route of a form that has no id parameter (a new record).
NoId == 0

\* The request handler invocation n sent, if it is in flight.
InFlight(n) == \E r \in cReqs : r.n = n

Req(n) == CHOOSE r \in cReqs : r.n = n

NoCrudStep == [kind |-> "none", phase |-> "created", route |-> "page", form |-> 0]

CrudStep(kind) ==
  [kind |-> kind, phase |-> cPhase, route |-> cRoute, form |-> formData]

CrudInit ==
  /\ cScreen \in Forms \cup Details \cup {ClientsList}
  /\ cId \in IF cScreen \in Forms THEN {NoId, 1}
             ELSE IF cScreen \in Details THEN {1} ELSE {NoId}
  /\ cPhase = "created"
  /\ cRoute = "page"
  /\ formData = 0
  /\ cLoading = FALSE
  /\ cError = Null
  /\ cAlerts = 0
  /\ cConsole = 0
  /\ cShown = {}
  /\ cLoad = "none"
  /\ cReqs = {}
  /\ crudTable = { [id |-> i, data |-> 1] : i \in 1..MaxCrudRows }
  /\ nInvocations = 0
  /\ nWrites = 0
  /\ cstep = NoCrudStep

CrudIdle ==
  /\ cScreen = "none"
  /\ cId = NoId
  /\ cPhase = "created"
  /\ cRoute = "page"
  /\ formData = 0
  /\ cLoading = FALSE
  /\ cError = Null
  /\ cAlerts = 0
  /\ cConsole = 0
  /\ cShown = {}
  /\ cLoad = "none"
  /\ cReqs = {}
  /\ crudTable = {}
  /\ nInvocations = 0
  /\ nWrites = 0
  /\ cstep = NoCrudStep

\* The mount effect: a form with an id, a detail page and the Clients list
\* start the fetch of what they show.
CrudMount ==
  /\ cPhase = "created"
  /\ cPhase' = "mounted"
  /\ cLoad' = IF cScreen \in Forms /\ cId = NoId THEN "none" ELSE "pending"
  /\ cstep' = CrudStep("mount")
  /\ UNCHANGED <<cScreen, cId, cRoute, formData, cLoading, cError, cAlerts,
                 cConsole, cShown, cReqs, crudTable, nInvocations, nWrites>>
  /\ UNCHANGED notCrud

\* The page's fetch answered (fetchDevice, fetchClient, ... of a form; the
\* fetch of a detail page; fetchClients of the list).  .single() answers with
\* an error when the row does not exist.
fetchRecord_then(success) ==
  /\ cLoad = "pending"
  /\ cLoad' = "done"
  /\ LET found == success /\ (\E r \in crudTable : r.id = cId)
         row == CHOOSE r \in crudTable : r.id = cId
     IN  /\ cConsole' = IF (cScreen = ClientsList /\ success)
                           \/ (cScreen # ClientsList /\ found)
                        THEN cConsole ELSE cConsole + 1
         /\ IF cPhase # "mounted"
            THEN UNCHANGED <<formData, cError, cShown>>
            ELSE IF cScreen \in Forms
            THEN /\ formData' = IF found THEN row.data ELSE formData
                 /\ cError' = IF found THEN cError ELSE "load"
                 /\ UNCHANGED cShown
            ELSE IF cScreen \in Details
            THEN /\ cShown' = IF found THEN {cId} ELSE {}
                 /\ UNCHANGED <<formData, cError>>
            ELSE /\ cShown' = IF success THEN { r.id : r \in crudTable } ELSE {}
                 /\ UNCHANGED <<formData, cError>>
  /\ cstep' = CrudStep("fetched")
  /\ UNCHANGED <<cScreen, cId, cPhase, cRoute, cLoading, cAlerts, cReqs,
                 crudTable, nInvocations, nWrites>>
  /\ UNCHANGED notCrud

\* handleChange of a form: the user edits a field.
handleChange(v) ==
  /\ cScreen \in Forms
  /\ cPhase = "mounted"
  /\ v # formData
  /\ formData' = v
  /\ cstep' = CrudStep("change")
  /\ UNCHANGED <<cScreen, cId, cPhase, cRoute, cLoading, cError, cAlerts,
                 cConsole, cShown, cLoad, cReqs, crudTable, nInvocations,
                 nWrites>>
  /\ UNCHANGED notCrud

\* The back and cancel buttons of a form or a detail page: navigate(list).
NavigateBack ==
  /\ cScreen \in Forms \cup Details
  /\ cPhase = "mounted"
  /\ cPhase' = "unmounted"
  /\ cRoute' = "list"
  /\ cstep' = CrudStep("back")
  /\ UNCHANGED <<cScreen, cId, formData, cLoading, cError, cAlerts, cConsole,
                 cShown, cLoad, cReqs, crudTable, nInvocations, nWrites>>
  /\ UNCHANGED notCrud

Request(op, id, payload) ==
  [n |-> nInvocations + 1, op |-> op, id |-> id, payload |-> payload,
   closure |-> cShown, state |-> "sent"]

\* handleSubmit of a form up to its await.  The submit button is disabled
\* while loading.
handleSubmit ==
  /\ cScreen \in Forms
  /\ cPhase = "mounted"
  /\ ~cLoading
  /\ nInvocations < MaxClicks
  /\ cLoading' = TRUE
  /\ cError' = Null
  /\ cReqs' = cReqs \cup
       {Request(IF cId # NoId THEN "update" ELSE "insert", cId, formData)}
  /\ nInvocations' = nInvocations + 1
  /\ nWrites' = nWrites + 1
  /\ cstep' = CrudStep("submit")
  /\ UNCHANGED <<cScreen, cId, cPhase, cRoute, formData, cAlerts, cConsole,
                 cShown, cLoad, crudTable>>
  /\ UNCHANGED notCrud

\* handleDelete of a detail page (of its record) or of the Clients list (of
\* a row shown) up to its await; it returns at once when the user declines
\* the confirmation.
handleDelete(id, confirmed) ==
  /\ cScreen \in Details \cup {ClientsList}
  /\ cPhase = "mounted"
  /\ id \in cShown
  /\ nInvocations < MaxClicks
  /\ nInvocations' = nInvocations + 1
  /\ IF confirmed
     THEN /\ cReqs' = cReqs \cup {Request("delete", id, 0)}
          /\ nWrites' = nWrites + 1
     ELSE UNCHANGED <<cReqs, nWrites>>
  /\ cstep' = CrudStep(IF confirmed THEN "delete" ELSE "declined")
  /\ UNCHANGED <<cScreen, cId, cPhase, cRoute, formData, cLoading, cError,
                 cAlerts, cConsole, cShown, cLoad, crudTable>>
  /\ UNCHANGED notCrud

NewId == IF crudTable = {} THEN 1
         ELSE 1 + (CHOOSE i \in { r.id : r \in crudTable } :
                     \A r \in crudTable : r.id <= i)

\* The backend settles a write request: with success (the write is applied)
\* or with an error (it is not).
BackendWrite(n, success) ==
  /\ InFlight(n)
  /\ Req(n).state = "sent"
  /\ cReqs' = (cReqs \ {Req(n)}) \cup
                {[Req(n) EXCEPT !.state = IF success THEN "ok" ELSE "error"]}
  /\ crudTable' =
       IF ~success THEN crudTable
       ELSE CASE Req(n).op = "insert" ->
                   crudTable \cup {[id |-> NewId, data |-> Req(n).payload]}
              [] Req(n).op = "update" ->
                   { IF x.id = Req(n).id
                     THEN [x EXCEPT !.data = Req(n).payload] ELSE x :
                       x \in crudTable }
              [] OTHER -> { x \in crudTable : x.id # Req(n).id }
  /\ cstep' = CrudStep("backend")
  /\ UNCHANGED <<cScreen, cId, cPhase, cRoute, formData, cLoading, cError,
                 cAlerts, cConsole, cShown, cLoad, nInvocations, nWrites>>
  /\ UNCHANGED notCrud

\* handleSubmit as it would be if it navigated to the list whatever the answer.
handleSubmit_then_navigateAlways(n) ==
  /\ InFlight(n)
  /\ Req(n).op \in {"insert", "update"}
  /\ Req(n).state \in {"ok", "error"}
  /\ cReqs' = cReqs \ {Req(n)}
  /\ cRoute' = "list"
  /\ cPhase' = "unmounted"
  /\ cConsole' = IF Req(n).state = "ok" THEN cConsole ELSE cConsole + 1
  /\ cError' = IF Req(n).state = "error" /\ cPhase = "mounted" THEN "save" ELSE cError
  /\ cLoading' = IF cPhase = "mounted" THEN FALSE ELSE cLoading
  /\ cstep' = CrudStep(IF Req(n).state = "ok" THEN "submitOk" ELSE "submitError")
  /\ UNCHANGED <<cScreen, cId, formData, cAlerts, cShown, cLoad, crudTable,
                 nInvocations, nWrites>>
  /\ UNCHANGED notCrud

\* handleSubmit as it would be if its catch block sent the request again.
handleSubmit_then_retry(n) ==
  /\ InFlight(n)
  /\ Req(n).op \in {"insert", "update"}
  /\ Req(n).state \in {"ok", "error"}
  /\ IF Req(n).state = "ok"
     THEN /\ cReqs' = cReqs \ {Req(n)}
          /\ cRoute' = "list"
          /\ cPhase' = "unmounted"
          /\ cLoading' = IF cPhase = "mounted" THEN FALSE ELSE cLoading
          /\ UNCHANGED <<cError, cConsole, nWrites>>
     ELSE /\ cReqs' = (cReqs \ {Req(n)}) \cup {[Req(n) EXCEPT !.state = "sent"]}
          /\ nWrites' = nWrites + 1
          /\ cConsole' = cConsole + 1
          /\ UNCHANGED <<cRoute, cPhase, cLoading, cError>>
  /\ cstep' = CrudStep(IF Req(n).state = "ok" THEN "submitOk" ELSE "submitError")
  /\ UNCHANGED <<cScreen, cId, formData, cAlerts, cShown, cLoad, crudTable,
                 nInvocations>>
  /\ UNCHANGED notCrud

\* handleSubmit after its await: navigate to the list when the request
\* returned no error; otherwise the catch block (log, setError); then the
\* finally block (setLoading(false)).
handleSubmit_then(n) ==
  /\ InFlight(n)
  /\ Req(n).op \in {"insert", "update"}
  /\ Req(n).state \in {"ok", "error"}
  /\ cReqs' = cReqs \ {Req(n)}
  /\ IF Req(n).state = "ok"
     THEN /\ cRoute' = "list"
          /\ cPhase' = "unmounted"
          /\ UNCHANGED <<cError, cConsole>>
     ELSE /\ cConsole' = cConsole + 1
          /\ cError' = IF cPhase = "mounted" THEN "save" ELSE cError
          /\ UNCHANGED <<cRoute, cPhase>>
  /\ cLoading' = IF cPhase = "mounted" THEN FALSE ELSE cLoading
  /\ cstep' = CrudStep(IF Req(n).state = "ok" THEN "submitOk" ELSE "submitError")
  /\ UNCHANGED <<cScreen, cId, formData, cAlerts, cShown, cLoad, crudTable,
                 nInvocations, nWrites>>
  /\ UNCHANGED notCrud

\* handleDelete after its await.  A detail page navigates to the list when
\* the request returned no error, and its catch block logs.  The Clients
\* list removes the row from the list it had at the call, and its catch
\* block logs and alerts.
handleDelete_then(n) ==
  /\ InFlight(n)
  /\ Req(n).op = "delete"
  /\ Req(n).state \in {"ok", "error"}
  /\ cReqs' = cReqs \ {Req(n)}
  /\ IF Req(n).state = "ok"
     THEN /\ IF cScreen \in Details
             THEN /\ cRoute' = "list"
                  /\ cPhase' = "unmounted"
                  /\ UNCHANGED cShown
             ELSE /\ cShown' = IF cPhase = "mounted"
                               THEN Req(n).closure \ {Req(n).id} ELSE cShown
                  /\ UNCHANGED <<cRoute, cPhase>>
          /\ UNCHANGED <<cConsole, cAlerts>>
     ELSE /\ cConsole' = cConsole + 1
          /\ cAlerts' = IF cScreen = ClientsList THEN cAlerts + 1 ELSE cAlerts
          /\ UNCHANGED <<cRoute, cPhase, cShown>>
  /\ cstep' = CrudStep(IF Req(n).state = "ok" THEN "deleteOk" ELSE "deleteError")
  /\ UNCHANGED <<cScreen, cId, formData, cLoading, cError, cLoad, crudTable,
                 nInvocations, nWrites>>
  /\ UNCHANGED notCrud

CrudNext ==
  \/ CrudMount
  \/ \E success \in BOOLEAN : fetchRecord_then(success)
  \/ \E v \in FormValues : handleChange(v)
  \/ NavigateBack
  \/ handleSubmit
  \/ \E id \in 1..MaxCrudRows, confirmed \in BOOLEAN : handleDelete(id, confirmed)
  \/ \E n \in 1..MaxClicks, success \in BOOLEAN : BackendWrite(n, success)
  \/ \E n \in 1..MaxClicks : handleSubmit_then(n)
  \/ \E n \in 1..MaxClicks : handleDelete_then(n)

(***************************************************************************)
(* Part 5: the database the migrations declare.  A step is one statement   *)
(* an authenticated user sends through the backend's query API: an insert, *)
(* an update or a delete of one row, or a select of a table.  Row-level    *)
(* security decides which rows the statement may touch, the foreign keys   *)
(* what a delete does to the rows that reference the deleted one.          *)
(* Referential actions run whatever the policies of the child table say.   *)
(* Each table keeps its id, its foreign-key columns and one other column   *)
(* where a statement needs one to change (v); the legacy table            *)
(* invoices_quotes, which no page uses, is left out.                       *)
(***************************************************************************)

\* Statements sent to the database in a behaviour.
MaxDbOps == 2

\* SQL NULL in a foreign-key column.
SqlNull == 0

\* auth.users.
Users == {"userA", "userB"}

Tables == {"operators", "clients", "devices", "interventions",
           "intervention_history", "device_files", "intervention_files",
           "quotes_invoices", "client_orders"}

\* The foreign keys as the last migration that touches each leaves them.
ForeignKeys ==
  { [child |-> "devices", col |-> "operator_id", parent |-> "operators",
     on_delete |-> "SET NULL"],
    [child |-> "devices", col |-> "client_id", parent |-> "clients",
     on_delete |-> "SET NULL"],
    [child |-> "interventions", col |-> "device_id", parent |-> "devices",
     on_delete |-> "CASCADE"],
    [child |-> "interventions", col |-> "operator_id", parent |-> "operators",
     on_delete |-> "CASCADE"],
    [child |-> "intervention_history", col |-> "device_id", parent |-> "devices",
     on_delete |-> "CASCADE"],
    [child |-> "intervention_history", col |-> "operator_id",
     parent |-> "operators", on_delete |-> "CASCADE"],
    [child |-> "intervention_history", col |-> "intervention_id",
     parent |-> "interventions", on_delete |-> "CASCADE"],
    [child |-> "device_files", col |-> "device_id", parent |-> "devices",
     on_delete |-> "CASCADE"],
    [child |-> "device_files", col |-> "uploaded_by", parent |-> "operators",
     on_delete |-> "NO ACTION"],
    [child |-> "intervention_files", col |-> "intervention_id",
     parent |-> "interventions", on_delete |-> "CASCADE"],
    [child |-> "intervention_files", col |-> "uploaded_by",
     parent |-> "operators", on_delete |-> "NO ACTION"],
    [child |-> "quotes_invoices", col |-> "client_id", parent |-> "clients",
     on_delete |-> "CASCADE"],
    [child |-> "client_orders", col |-> "client_id", parent |-> "clients",
     on_delete |-> "CASCADE"] }

\* The columns of a table besides id, and the foreign-key columns that are
\* NOT NULL.
Columns(t) ==
  CASE t = "operators" -> {"user_id"}
    [] t = "clients" -> {"v"}
    [] t = "devices" -> {"operator_id", "client_id", "v"}
    [] t = "interventions" -> {"device_id", "operator_id"}
    [] t = "intervention_history" -> {"device_id", "operator_id", "intervention_id"}
    [] t = "device_files" -> {"device_id", "uploaded_by"}
    [] t = "intervention_files" -> {"intervention_id", "uploaded_by"}
    [] OTHER -> {"client_id"}

Nullable(t, c) ==
  \/ t = "devices" /\ c \in {"operator_id", "client_id"}
  \/ c = "uploaded_by"

\* The values of the other column.
Values == {0, 1}

\* A row value with its id.
WithId(val, id) ==
  [c \in DOMAIN val \cup {"id"} |-> IF c = "id" THEN id ELSE val[c]]

Ids(d, t) == { r.id : r \in d[t] }

\* The policies' condition as it would be if every authenticated user passed.
IsOperator_everyUser(d, u) == TRUE

\* EXISTS (SELECT 1 FROM operators WHERE user_id = auth.uid()).
IsOperator(d, u) == \E o \in d["operators"] : o.user_id = u

\* The USING expression of the policies of table t for a command, on a row.
\* intervention_history has no policy for UPDATE or DELETE.
Using(d, u, t, cmd, row) ==
  CASE t = "operators" -> cmd = "SELECT" \/ row.user_id = u
    [] t = "intervention_history" -> cmd = "SELECT"
    [] t \in {"devices", "clients", "interventions"} ->
         cmd = "SELECT" \/ IsOperator(d, u)
    [] OTHER -> IsOperator(d, u)

\* The policies as they would be without a WITH CHECK expression.
WithCheck_anyRow(d, u, t, cmd, row) == TRUE

\* The WITH CHECK expression of the policies of table t, on a new row.
WithCheck(d, u, t, cmd, row) ==
  CASE t = "operators" -> row.user_id = u
    [] t = "intervention_history" -> cmd = "INSERT" /\ IsOperator(d, u)
    [] OTHER -> IsOperator(d, u)

\* The check as it would be without the foreign-key constraints.
ReferencesExist_unchecked(d, t, row) == TRUE

\* Every foreign key of the row names an existing row or is null.
ReferencesExist(d, t, row) ==
  \A fk \in ForeignKeys :
    fk.child = t => (row[fk.col] = SqlNull \/ row[fk.col] \in Ids(d, fk.parent))

CascadeKeys == { fk \in ForeignKeys : fk.on_delete = "CASCADE" }

\* The rows that reference a row of doomed (pairs <<table, id>>) through a
\* foreign key ON DELETE CASCADE.
Children(d, doomed) ==
  UNION { { <<fk.child, r.id>> :
              r \in { x \in d[fk.child] : <<fk.parent, x[fk.col]>> \in doomed } } :
          fk \in CascadeKeys }

\* The delete as it would be without ON DELETE CASCADE on the children.
Cascade_targetOnly(d, doomed) == doomed

\* The rows a delete of the rows of doomed deletes: those and, transitively,
\* their children.
RECURSIVE Cascade(_, _)
Cascade(d, doomed) ==
  IF Children(d, doomed) \subseteq doomed
  THEN doomed
  ELSE Cascade(d, doomed \cup Children(d, doomed))

\* A surviving row references a deleted one through a foreign key without a
\* referential action: the statement fails.
Blocked(d, doomed) ==
  \E fk \in ForeignKeys :
    /\ fk.on_delete = "NO ACTION"
    /\ \E r \in d[fk.child] :
         <<fk.child, r.id>> \notin doomed /\ <<fk.parent, r[fk.col]>> \in doomed

\* A surviving row after the delete: ON DELETE SET NULL.
SetNull_keepReference(t, r, doomed) == r

SetNull(t, r, doomed) ==
  [c \in DOMAIN r |->
     IF \E fk \in ForeignKeys :
          /\ fk.child = t
          /\ fk.col = c
          /\ fk.on_delete = "SET NULL"
          /\ <<fk.parent, r[c]>> \in doomed
     THEN SqlNull ELSE r[c]]

AfterDelete(d, doomed) ==
  [t \in Tables |->
     { SetNull(t, r, doomed) : r \in { x \in d[t] : <<t, x.id>> \notin doomed } }]

\* The values a statement can give column c of table t: for a foreign key,
\* the ids of the parent's rows, an id no row of the parent has (the next of
\* its sequence), and NULL where the column allows it.
ColumnValues(t, c) ==
  IF c = "user_id" THEN Users
  ELSE IF c = "v" THEN Values
  ELSE LET fk == CHOOSE f \in ForeignKeys : f.child = t /\ f.col = c
       IN  Ids(db, fk.parent) \cup {seq[fk.parent]}
             \cup (IF Nullable(t, c) THEN {SqlNull} ELSE {})

\* The rows (without id) an INSERT can give.
RowValues(t) ==
  CASE t = "operators" -> [user_id : Users]
    [] t = "clients" -> [v : Values]
    [] t = "devices" ->
         [operator_id : ColumnValues(t, "operator_id"),
          client_id : ColumnValues(t, "client_id"), v : Values]
    [] t = "interventions" ->
         [device_id : ColumnValues(t, "device_id"),
          operator_id : ColumnValues(t, "operator_id")]
    [] t = "intervention_history" ->
         [device_id : ColumnValues(t, "device_id"),
          operator_id : ColumnValues(t, "operator_id"),
          intervention_id : ColumnValues(t, "intervention_id")]
    [] t = "device_files" ->
         [device_id : ColumnValues(t, "device_id"),
          uploaded_by : ColumnValues(t, "uploaded_by")]
    [] t = "intervention_files" ->
         [intervention_id : ColumnValues(t, "intervention_id"),
          uploaded_by : ColumnValues(t, "uploaded_by")]
    [] OTHER -> [client_id : ColumnValues(t, "client_id")]

\* The ids a statement can name as its target: those of the table's rows
\* and one no row has.
Targets(t) == Ids(db, t) \cup {seq[t]}

DbStep(op, t, id, result, casc) ==
  [op |-> op, table |-> t, id |-> id, result |-> result, cascaded |-> casc]

NoDbStep == DbStep("none", "none", 0, "none", 0)

\* A database userA, an operator, has filled: one row in each table, the
\* device assigned to the operator and owned by the client; the device's
\* file names its uploader or not.
FilledDb(uploader) ==
  [t \in Tables |->
     CASE t = "operators" -> {[id |-> 1, user_id |-> "userA"]}
       [] t = "clients" -> {[id |-> 1, v |-> 0]}
       [] t = "devices" -> {[id |-> 1, operator_id |-> 1, client_id |-> 1, v |-> 0]}
       [] t = "interventions" -> {[id |-> 1, device_id |-> 1, operator_id |-> 1]}
       [] t = "intervention_history" ->
            {[id |-> 1, device_id |-> 1, operator_id |-> 1, intervention_id |-> 1]}
       [] t = "device_files" -> {[id |-> 1, device_id |-> 1, uploaded_by |-> uploader]}
       [] t = "intervention_files" ->
            {[id |-> 1, intervention_id |-> 1, uploaded_by |-> SqlNull]}
       [] OTHER -> {[id |-> 1, client_id |-> 1]}]

\* The database after the migrations (every table truncated except
\* operators) or after userA has filled it; one user is signed in.
DbInit ==
  /\ db \in { [t \in Tables |-> IF t = "operators" THEN FilledDb(SqlNull)[t] ELSE {}],
              FilledDb(SqlNull), FilledDb(1) }
  /\ seq = [t \in Tables |-> IF db[t] = {} THEN 1 ELSE 2]
  /\ session \in Users
  /\ dbOps = 0
  /\ dbstep = NoDbStep

DbIdle ==
  /\ db = [t \in Tables |-> {}]
  /\ seq = [t \in Tables |-> 1]
  /\ session = "none"
  /\ dbOps = 0
  /\ dbstep = NoDbStep

Row(t, id) == CHOOSE r \in db[t] : r.id = id

\* Another user signs in (auth.uid() of the statements that follow).
SignIn(u) ==
  /\ u # session
  /\ session' = u
  /\ dbstep' = DbStep("signin", "none", 0, "ok", 0)
  /\ UNCHANGED <<db, seq, dbOps>>
  /\ UNCHANGED notDb

\* INSERT INTO t: the id comes from the table's sequence (BIGSERIAL), the
\* policies' WITH CHECK is evaluated on the new row, then the foreign keys.
Insert(t) ==
  /\ dbOps < MaxDbOps
  /\ dbOps' = dbOps + 1
  /\ seq' = [seq EXCEPT ![t] = seq[t] + 1]
  /\ \E val \in RowValues(t) :
       LET row == WithId(val, seq[t])
       IN  IF ~WithCheck(db, session, t, "INSERT", row)
           THEN /\ dbstep' = DbStep("INSERT", t, row.id, "denied", 0)
                /\ UNCHANGED db
           ELSE IF ~ReferencesExist(db, t, row)
           THEN /\ dbstep' = DbStep("INSERT", t, row.id, "error", 0)
                /\ UNCHANGED db
           ELSE /\ dbstep' = DbStep("INSERT", t, row.id, "ok", 0)
                /\ db' = [db EXCEPT ![t] = db[t] \cup {row}]
  /\ UNCHANGED session
  /\ UNCHANGED notDb

\* UPDATE t SET c = value WHERE id = id: the row must pass USING (else no
\* row is updated, without error); the new row must pass WITH CHECK and the
\* foreign keys.
Update(t, c) ==
  /\ c \in Columns(t)
  /\ dbOps < MaxDbOps
  /\ dbOps' = dbOps + 1
  /\ \E id \in Targets(t), value \in ColumnValues(t, c) :
       IF id \notin Ids(db, t) \/ ~Using(db, session, t, "UPDATE", Row(t, id))
       THEN /\ dbstep' = DbStep("UPDATE", t, id, "none", 0)
            /\ UNCHANGED db
       ELSE LET new == [Row(t, id) EXCEPT ![c] = value]
            IN  IF ~WithCheck(db, session, t, "UPDATE", new)
                THEN /\ dbstep' = DbStep("UPDATE", t, id, "denied", 0)
                     /\ UNCHANGED db
                ELSE IF ~ReferencesExist(db, t, new)
                THEN /\ dbstep' = DbStep("UPDATE", t, id, "error", 0)
                     /\ UNCHANGED db
                ELSE /\ dbstep' = DbStep("UPDATE", t, id, "ok", 0)
                     /\ db' = [db EXCEPT ![t] = (db[t] \ {Row(t, id)}) \cup {new}]
  /\ UNCHANGED <<seq, session>>
  /\ UNCHANGED notDb

\* DELETE FROM t WHERE id = id: the row must pass USING (else no row is
\* deleted, without error); the referential actions follow.
Delete(t) ==
  /\ dbOps < MaxDbOps
  /\ dbOps' = dbOps + 1
  /\ \E id \in Targets(t) :
       LET doomed == Cascade(db, {<<t, id>>})
       IN  IF id \notin Ids(db, t) \/ ~Using(db, session, t, "DELETE", Row(t, id))
           THEN /\ dbstep' = DbStep("DELETE", t, id, "none", 0)
                /\ UNCHANGED db
           ELSE IF Blocked(db, doomed)
           THEN /\ dbstep' = DbStep("DELETE", t, id, "error", 0)
                /\ UNCHANGED db
           ELSE /\ dbstep' = DbStep("DELETE", t, id, "ok", Cardinality(doomed) - 1)
                /\ db' = AfterDelete(db, doomed)
  /\ UNCHANGED <<seq, session>>
  /\ UNCHANGED notDb

\* check_data_integrity(): the counts of its three checks (devices with an
\* invalid operator_id, interventions with an invalid device_id,
\* interventions with an invalid operator_id).
check_data_integrity(d) ==
  << Cardinality({ x \in d["devices"] :
                     /\ x.operator_id # SqlNull
                     /\ ~\E o \in d["operators"] : o.id = x.operator_id }),
     Cardinality({ i \in d["interventions"] :
                     ~\E x \in d["devices"] : x.id = i.device_id }),
     Cardinality({ i \in d["interventions"] :
                     ~\E o \in d["operators"] : o.id = i.operator_id }) >>

\* The rows of t a SELECT by u returns.
Visible(d, u, t) == { r \in d[t] : Using(d, u, t, "SELECT", r) }

\* SELECT * FROM t.
SelectTable(t) ==
  /\ dbOps < MaxDbOps
  /\ dbOps' = dbOps + 1
  /\ dbstep' = DbStep("SELECT", t, 0, "ok", Cardinality(Visible(db, session, t)))
  /\ UNCHANGED <<db, seq, session>>
  /\ UNCHANGED notDb

AllColumns == UNION { Columns(t) : t \in Tables }

DbNext ==
  \/ \E u \in Users : SignIn(u)
  \/ \E t \in Tables : Insert(t)
  \/ \E t \in Tables, c \in AllColumns : Update(t, c)
  \/ \E t \in Tables : Delete(t)
  \/ \E t \in Tables : SelectTable(t)

(***************************************************************************)
(* Part 6: OperatorForm on the operators table.  The page is shown under   *)
(* PrivateRoute, so useAuth().user is the signed-in user (session) while   *)
(* the form is mounted.  opForm is the form: open, the route's id (NoId    *)
(* for /operators/new) and formData.user_id, the one field the policies    *)
(* of operators read.  The input of user_id is readOnly, so handleChange   *)
(* never receives it.                                                      *)
(***************************************************************************)
ClosedForm == [open |-> FALSE, id |-> NoId, user_id |-> ""]

\* initialFormData, under the route's id.
initialFormData(id) == [open |-> TRUE, id |-> id, user_id |-> ""]

\* The effect of OperatorForm (dependencies id and user): with an id,
\* fetchOperator puts the stored row in formData (formData is kept when the
\* row is not found); without one, user_id becomes the user's id.
OperatorForm_useEffect(prev, user) ==
  IF prev.id # NoId
  THEN IF prev.id \in Ids(db, "operators")
       THEN [prev EXCEPT !.user_id = Row("operators", prev.id).user_id]
       ELSE prev
  ELSE [prev EXCEPT !.user_id = user]

OpFormInit ==
  /\ DbInit
  /\ opForm = ClosedForm

OpFormIdle == opForm = ClosedForm

\* The route /operators/new or /operators/:id/edit is opened: first render,
\* then the effect.
OperatorForm_mount(id) ==
  /\ ~opForm.open
  /\ id \in {NoId} \cup Targets("operators")
  /\ opForm' = OperatorForm_useEffect(initialFormData(id), session)
  /\ UNCHANGED dbVars
  /\ UNCHANGED notOpForm

\* The signed-in user changes (AuthContext gives another user): the statements
\* that follow carry the new uid, and the effect of a mounted form runs again.
AuthChange(u) ==
  /\ u # session
  /\ session' = u
  /\ opForm' = IF opForm.open THEN OperatorForm_useEffect(opForm, u) ELSE opForm
  /\ dbstep' = DbStep("signin", "none", 0, "ok", 0)
  /\ UNCHANGED <<db, seq, dbOps>>
  /\ UNCHANGED notOpForm

\* OperatorForm.handleSubmit (the browser refuses to submit while the
\* required user_id is empty): update(formData).eq('id', id) with an id,
\* insert([formData]) without; navigate('/operators') unless the statement
\* returned an error.
OperatorForm_handleSubmit ==
  /\ opForm.open
  /\ opForm.user_id # ""
  /\ dbOps < MaxDbOps
  /\ dbOps' = dbOps + 1
  /\ IF opForm.id # NoId
     THEN LET new == [id |-> opForm.id, user_id |-> opForm.user_id]
          IN  /\ seq' = seq
              /\ IF \/ opForm.id \notin Ids(db, "operators")
                    \/ ~Using(db, session, "operators", "UPDATE",
                              Row("operators", opForm.id))
                 THEN /\ dbstep' = DbStep("handleSubmit", "operators", opForm.id, "none", 0)
                      /\ opForm' = ClosedForm
                      /\ UNCHANGED db
                 ELSE IF ~WithCheck(db, session, "operators", "UPDATE", new)
                 THEN /\ dbstep' = DbStep("handleSubmit", "operators", opForm.id, "denied", 0)
                      /\ UNCHANGED <<db, opForm>>
                 ELSE /\ dbstep' = DbStep("handleSubmit", "operators", opForm.id, "ok", 0)
                      /\ opForm' = ClosedForm
                      /\ db' = [db EXCEPT !["operators"] =
                                  (@ \ {Row("operators", opForm.id)}) \cup {new}]
     ELSE LET row == [id |-> seq["operators"], user_id |-> opForm.user_id]
          IN  /\ seq' = [seq EXCEPT !["operators"] = @ + 1]
              /\ IF ~WithCheck(db, session, "operators", "INSERT", row)
                 THEN /\ dbstep' = DbStep("handleSubmit", "operators", row.id, "denied", 0)
                      /\ UNCHANGED <<db, opForm>>
                 ELSE /\ dbstep' = DbStep("handleSubmit", "operators", row.id, "ok", 0)
                      /\ opForm' = ClosedForm
                      /\ db' = [db EXCEPT !["operators"] = @ \cup {row}]
  /\ UNCHANGED session
  /\ UNCHANGED notOpForm

\* The back arrow: navigate('/operators').
OperatorForm_back ==
  /\ opForm.open
  /\ opForm' = ClosedForm
  /\ UNCHANGED dbVars
  /\ UNCHANGED notOpForm

\* The form, and the statements any client can send on operators.
OpFormNext ==
  \/ \E u \in Users : AuthChange(u)
  \/ \E id \in 0..(MaxDbOps + 2) : OperatorForm_mount(id)
  \/ OperatorForm_handleSubmit
  \/ OperatorForm_back
  \/ Insert("operators")
  \/ Update("operators", "user_id")
  \/ Delete("operators")

(***************************************************************************)
(* Part 7: what a list page displays.  A page keeps the fetched rows, the  *)
(* search term and the dropdown filters in its state, and computes the     *)
(* displayed rows from them on every render (filteredDevices,              *)
(* filteredInterventions, filteredOperators, filteredQuotesInvoices,       *)
(* filteredClients).  Strings are character sequences as in Part 1; a      *)
(* nullable text column that is null is the empty sequence where the code  *)
(* only reads it through || '' or &&, which treat null and '' alike; a     *)
(* nullable id that is null is SqlNull.                                    *)
(***************************************************************************)
\* Longest term typed letter by letter from ViewAlphabet.
MaxSearchLen == 2

ViewPages == {"Devices", "Interventions", "Operators", "QuotesInvoices", "Clients"}

Digit(d) ==
  CASE d = 0 -> "0" [] d = 1 -> "1" [] d = 2 -> "2" [] d = 3 -> "3"
    [] d = 4 -> "4" [] d = 5 -> "5" [] d = 6 -> "6" [] d = 7 -> "7"
    [] d = 8 -> "8" [] OTHER -> "9"

\* Number.prototype.toString of a non-negative integer.
RECURSIVE NumberToString(_)
NumberToString(n) ==
  IF n < 10 THEN <<Digit(n)>>
  ELSE NumberToString(n \div 10) \o <<Digit(n % 10)>>

\* A number as a JavaScript value.
Num(n) == [type |-> "number", text |-> NumberToString(n)]

\* x?.toString() of a nullable id.
OptionalToString(n) == IF n = SqlNull THEN Undefined ELSE Str(NumberToString(n))

\* a === b: no conversion, values of different types are never equal.
StrictEquals(a, b) == a.type = b.type /\ a.text = b.text

\* The rows the fetch functions can have stored.
DeviceRows ==
  { <<>>,
    <<[id |-> 1, category |-> <<"p", "e_acute", "r", "i", "p", "h", "e_acute", "r", "i", "q", "u", "e">>,
     code |-> <<"A">>, brand |-> <<"P", "a", "r", "a">>, model |-> <<"r", "1">>,
     external_condition |-> <<"C", "a", "s", "s", "e_acute">>, grade |-> <<"A">>,
     operator_id |-> 1, client_id |-> 1]>>,
    <<[id |-> 12, category |-> <<"S", "o", "n">>, code |-> <<"B">>,
     brand |-> <<"S", "o", "n", "y">>, model |-> <<"a", "7">>,
     external_condition |-> <<"C", "a", "s", "s", "e_acute">>, grade |-> <<"B">>,
     operator_id |-> 0, client_id |-> 2],
      [id |-> 1, category |-> <<"p", "e_acute", "r", "i", "p", "h", "e_acute", "r", "i", "q", "u", "e">>,
       code |-> <<"A">>, brand |-> <<"P", "a", "r", "a">>, model |-> <<"r", "1">>,
       external_condition |-> <<"C", "a", "s", "s", "e_acute">>, grade |-> <<"A">>,
       operator_id |-> 1, client_id |-> 1]>> }

InterventionRows ==
  { <<>>,
    <<[id |-> 1, type |-> <<"R", "e_acute", "p", "a", "r", "a", "t", "i", "o", "n">>,
     status |-> <<"E", "n", " ", "c", "o", "u", "r", "s">>,
     operator_id |-> 1, client_id |-> 1, device_brand |-> <<"P", "a", "r", "a">>,
     device_model |-> <<"r", "1">>, operator_name |-> <<"P", "a">>]>>,
    <<[id |-> 12, type |-> <<"E", "x", "p", "e", "r", "t", "i", "s", "e">>,
     status |-> <<"T", "e", "r", "m", "i", "n", "e_acute">>,
     operator_id |-> 2, client_id |-> 0, device_brand |-> <<>>, device_model |-> <<>>,
     operator_name |-> <<>>],
      [id |-> 1, type |-> <<"R", "e_acute", "p", "a", "r", "a", "t", "i", "o", "n">>,
       status |-> <<"E", "n", " ", "c", "o", "u", "r", "s">>,
       operator_id |-> 1, client_id |-> 1, device_brand |-> <<"P", "a", "r", "a">>,
       device_model |-> <<"r", "1">>, operator_name |-> <<"P", "a">>]>> }

OperatorRows ==
  { <<>>,
    <<[id |-> 1, full_name |-> <<"P", "a">>,
     role |-> <<"T", "e", "c", "h", "n", "i", "c", "i", "e", "n">>,
     access_level |-> <<"u", "s", "e", "r">>]>>,
    <<[id |-> 12, full_name |-> <<"R", "r">>,
     role |-> <<"M", "a", "n", "a", "g", "e", "r">>,
     access_level |-> <<"a", "d", "m", "i", "n">>],
      [id |-> 1, full_name |-> <<"P", "a">>,
       role |-> <<"T", "e", "c", "h", "n", "i", "c", "i", "e", "n">>,
       access_level |-> <<"u", "s", "e", "r">>]>> }

QuoteInvoiceRows ==
  { <<>>,
    <<[id |-> 1, client_name |-> <<"P", "a", "r", "a">>,
     client_first_name |-> <<"P", "a">>, client_company |-> <<>>,
     document_type |-> <<"D", "e", "v", "i", "s">>,
     status |-> <<"P", "a", "y", "e_acute">>]>>,
    <<[id |-> 12, client_name |-> <<"S", "o", "n", "y">>,
     client_first_name |-> <<"R", "r">>, client_company |-> <<"P", "r", " ", "1">>,
     document_type |-> <<"F", "a", "c", "t", "u", "r", "e">>,
     status |-> <<"E", "n", " ", "a", "t", "t", "e", "n", "t", "e">>],
      [id |-> 1, client_name |-> <<"P", "a", "r", "a">>,
       client_first_name |-> <<"P", "a">>, client_company |-> <<>>,
       document_type |-> <<"D", "e", "v", "i", "s">>,
       status |-> <<"P", "a", "y", "e_acute">>]>> }

ClientRows ==
  { <<>>,
    <<[id |-> 1, name |-> <<"P", "a", "r", "a">>, first_name |-> <<"P", "a">>,
     email |-> <<"p", "@", "r">>, company |-> <<>>, city |-> <<"P", "a", "r", "i", "s">>,
     device_count |-> 1]>>,
    <<[id |-> 2, name |-> <<"S", "o", "n", "y">>, first_name |-> <<"R", "r">>,
     email |-> <<"r", "@", "1">>, company |-> <<"P", "r", " ", "1">>,
     city |-> <<"A", "r", "s">>, device_count |-> 0],
      [id |-> 1, name |-> <<"P", "a", "r", "a">>, first_name |-> <<"P", "a">>,
       email |-> <<"p", "@", "r">>, company |-> <<>>,
       city |-> <<"P", "a", "r", "i", "s">>, device_count |-> 1]>> }

\* What Clients.fetchDevices can have stored (devices with a client).
ClientDeviceRows ==
  { <<>>,
    <<[id |-> 1, client_id |-> 1, category |-> <<"p", "e_acute", "r", "i", "p", "h", "e_acute", "r", "i", "q", "u", "e">>]>>,
    <<[id |-> 1, client_id |-> 1, category |-> <<"p", "e_acute", "r", "i", "p", "h", "e_acute", "r", "i", "q", "u", "e">>],
      [id |-> 2, client_id |-> 1, category |-> <<"S", "o", "n">>]>> }

RowLists(p) ==
  CASE p = "Devices" -> DeviceRows
    [] p = "Interventions" -> InterventionRows
    [] p = "Operators" -> OperatorRows
    [] p = "QuotesInvoices" -> QuoteInvoiceRows
    [] OTHER -> ClientRows

\* The dropdown filters of each page, by the name of their state.
PageFilters(p) ==
  CASE p = "Devices" -> {"selectedCategory", "selectedCode", "selectedCondition",
                         "selectedGrade", "selectedOperator", "selectedClient"}
    [] p = "Interventions" -> {"selectedType", "selectedStatus", "selectedOperator",
                               "selectedClient"}
    [] p = "Operators" -> {"selectedRole", "selectedAccessLevel"}
    [] p = "QuotesInvoices" -> {"selectedType", "selectedStatus"}
    [] OTHER -> {"companyFilter", "cityFilter", "deviceFilter", "deviceCategoryFilter"}

AllFilters == UNION { PageFilters(p) : p \in ViewPages }

with_devices == <<"w", "i", "t", "h", "_", "d", "e", "v", "i", "c", "e", "s">>

without_devices == <<"w", "i", "t", "h", "o", "u", "t", "_", "d", "e", "v", "i", "c", "e", "s">>

\* The options of a dropdown that are drawn (besides the empty one).
FilterOptions(p, f) ==
  CASE f = "selectedCategory" -> {<<"p", "e_acute", "r", "i", "p", "h", "e_acute", "r", "i", "q", "u", "e">>}
    [] f = "selectedCode" -> {<<"A">>}
    [] f = "selectedCondition" -> {<<"C", "a", "s", "s", "e_acute">>}
    [] f = "selectedGrade" -> {<<"A">>}
    [] f = "selectedOperator" -> {<<"1">>}
    [] f = "selectedClient" -> {<<"1">>}
    [] f = "selectedType" ->
         IF p = "Interventions" THEN {<<"R", "e_acute", "p", "a", "r", "a", "t", "i", "o", "n">>} ELSE {<<"D", "e", "v", "i", "s">>}
    [] f = "selectedStatus" ->
         IF p = "Interventions" THEN {<<"E", "n", " ", "c", "o", "u", "r", "s">>} ELSE {<<"P", "a", "y", "e_acute">>}
    [] f = "selectedRole" -> {<<"T", "e", "c", "h", "n", "i", "c", "i", "e", "n">>}
    [] f = "selectedAccessLevel" -> {<<"u", "s", "e", "r">>}
    [] f = "companyFilter" -> {<<"P", "r", " ", "1">>}
    [] f = "cityFilter" -> {<<"P", "a", "r", "i", "s">>}
    [] f = "deviceFilter" -> {with_devices, without_devices}
    [] OTHER -> {<<"p", "e_acute", "r", "i", "p", "h", "e_acute", "r", "i", "q", "u", "e">>,
     <<"S", "o", "n">>}

ViewAlphabet == {"P", "r", "1"}

\* The terms typed: every string over ViewAlphabet up to MaxSearchLen, and
\* some longer or other ones.
ViewTerms ==
  SeqsUpTo(ViewAlphabet, MaxSearchLen) \cup
  { <<"-", "a">>, <<"a">>, <<"S", "O">>, <<"1", " ", "p">>, <<"1", " ", "r">> }

NoFilters == [f \in AllFilters |-> <<>>]

ViewInit ==
  /\ vPage \in ViewPages
  /\ vRows = <<>>
  /\ vDevices = <<>>
  /\ vSearchTerm = <<>>
  /\ selected = NoFilters

ViewIdle ==
  /\ vPage = "none"
  /\ vRows = <<>>
  /\ vDevices = <<>>
  /\ vSearchTerm = <<>>
  /\ selected = NoFilters

\* Devices.filteredDevices: matchesSearch as it would be with the term
\* compared as typed.
Devices_matchesSearch_termAsTyped(device, term) ==
  \/ includes(toLowerCase(device.brand), term)
  \/ includes(toLowerCase(device.model), term)
  \/ includes(toLowerCase(device.code), term)
  \/ includes(NumberToString(device.id), term)
  \/ includes(toLowerCase(device.category), term)
  \/ includes(toLowerCase(JsToString(getCategoryAbbreviation(device.category))), term)
  \/ includes(toLowerCase(JsToString(getProductCode(device.category, device.code))),
              term)

\* Devices.filteredDevices: matchesSearch.
Devices_matchesSearch(device, term) ==
  LET matchingCategories == searchInCategoryAbbreviations(term)
  IN  \/ includes(toLowerCase(device.brand), toLowerCase(term))
      \/ includes(toLowerCase(device.model), toLowerCase(term))
      \/ includes(toLowerCase(device.code), toLowerCase(term))
      \/ includes(NumberToString(device.id), term)
      \/ includes(toLowerCase(device.category), toLowerCase(term))
      \/ \E i \in DOMAIN matchingCategories : matchingCategories[i] = device.category
      \/ includes(toLowerCase(JsToString(getCategoryAbbreviation(device.category))),
                  toLowerCase(term))
      \/ includes(toLowerCase(JsToString(getProductCode(device.category, device.code))),
                  toLowerCase(term))

\* !selected || field === selected, for a text field.
MatchesFilter(sel, field) == sel = <<>> \/ field = sel

\* !selected || id?.toString() === selected, for a nullable id.
MatchesIdFilter(sel, id) == sel = <<>> \/ StrictEquals(OptionalToString(id), Str(sel))

filteredDevices(devices, term, sel) ==
  SelectSeq(devices, LAMBDA device :
    /\ Devices_matchesSearch(device, term)
    /\ MatchesFilter(sel["selectedCategory"], device.category)
    /\ MatchesFilter(sel["selectedCondition"], device.external_condition)
    /\ MatchesFilter(sel["selectedGrade"], device.grade)
    /\ MatchesFilter(sel["selectedCode"], device.code)
    /\ MatchesIdFilter(sel["selectedOperator"], device.operator_id)
    /\ MatchesIdFilter(sel["selectedClient"], device.client_id))

\* The template literal of Interventions: the fields joined by one space.
Interventions_searchString(intervention) ==
  toLowerCase(NumberToString(intervention.id) \o <<" ">> \o intervention.type
              \o <<" ">> \o intervention.device_brand \o <<" ">>
              \o intervention.device_model \o <<" ">> \o intervention.operator_name)

filteredInterventions(interventions, term, sel) ==
  SelectSeq(interventions, LAMBDA intervention :
    /\ includes(Interventions_searchString(intervention), toLowerCase(term))
    /\ MatchesFilter(sel["selectedType"], intervention.type)
    /\ MatchesFilter(sel["selectedStatus"], intervention.status)
    /\ MatchesIdFilter(sel["selectedOperator"], intervention.operator_id)
    /\ MatchesIdFilter(sel["selectedClient"], intervention.client_id))

Operators_searchString(operator) ==
  toLowerCase(NumberToString(operator.id) \o <<" ">> \o operator.full_name
              \o <<" ">> \o operator.role)

filteredOperators(operators, term, sel) ==
  SelectSeq(operators, LAMBDA operator :
    /\ includes(Operators_searchString(operator), toLowerCase(term))
    /\ MatchesFilter(sel["selectedRole"], operator.role)
    /\ MatchesFilter(sel["selectedAccessLevel"], operator.access_level))

\* client_company || '' gives the empty string for a null company.
QuotesInvoices_searchString(item) ==
  toLowerCase(NumberToString(item.id) \o <<" ">> \o item.client_name \o <<" ">>
              \o item.client_first_name \o <<" ">> \o item.client_company
              \o <<" ">> \o item.document_type)

filteredQuotesInvoices(quotesInvoices, term, sel) ==
  SelectSeq(quotesInvoices, LAMBDA item :
    /\ includes(QuotesInvoices_searchString(item), toLowerCase(term))
    /\ MatchesFilter(sel["selectedType"], item.document_type)
    /\ MatchesFilter(sel["selectedStatus"], item.status))

\* Clients.filteredClients without its last conjunct (the device-category
\* filter).  client.id is the number the backend returned.
Clients_matchesOtherFilters(client, term, sel) ==
  /\ \/ includes(NumberToString(client.id), term)
     \/ includes(toLowerCase(client.name), toLowerCase(term))
     \/ includes(toLowerCase(client.first_name), toLowerCase(term))
     \/ includes(toLowerCase(client.email), toLowerCase(term))
     \/ /\ client.company # <<>>
        /\ includes(toLowerCase(client.company), toLowerCase(term))
  /\ MatchesFilter(sel["companyFilter"], client.company)
  /\ MatchesFilter(sel["cityFilter"], client.city)
  /\ \/ sel["deviceFilter"] = <<>>
     \/ sel["deviceFilter"] = with_devices /\ client.device_count > 0
     \/ sel["deviceFilter"] = without_devices /\ client.device_count = 0

\* The last conjunct: device.client_id.toString() === client.id compares a
\* string with the number client.id.
Clients_matchesDeviceCategory(client, devices, sel) ==
  \/ sel["deviceCategoryFilter"] = <<>>
  \/ \E k \in DOMAIN devices :
       /\ StrictEquals(Str(NumberToString(devices[k].client_id)), Num(client.id))
       /\ devices[k].category = sel["deviceCategoryFilter"]

filteredClients(clients, devices, term, sel) ==
  SelectSeq(clients, LAMBDA client :
    /\ Clients_matchesOtherFilters(client, term, sel)
    /\ Clients_matchesDeviceCategory(client, devices, sel))

\* The rows the page displays.
Displayed ==
  CASE vPage = "Devices" -> filteredDevices(vRows, vSearchTerm, selected)
    [] vPage = "Interventions" -> filteredInterventions(vRows, vSearchTerm, selected)
    [] vPage = "Operators" -> filteredOperators(vRows, vSearchTerm, selected)
    [] vPage = "QuotesInvoices" -> filteredQuotesInvoices(vRows, vSearchTerm, selected)
    [] OTHER -> filteredClients(vRows, vDevices, vSearchTerm, selected)

\* A fetch of the page's rows returns: setDevices(data) and the like.
setRows ==
  /\ \E data \in RowLists(vPage) :
       /\ data # vRows
       /\ vRows' = data
  /\ UNCHANGED <<vPage, vDevices, vSearchTerm, selected>>
  /\ UNCHANGED notView

\* Clients.fetchDevices returns: setDevices(data).
Clients_setDevices ==
  /\ vPage = "Clients"
  /\ \E data \in ClientDeviceRows :
       /\ data # vDevices
       /\ vDevices' = data
  /\ UNCHANGED <<vPage, vRows, vSearchTerm, selected>>
  /\ UNCHANGED notView

\* The search box's onChange.
setSearchTerm ==
  /\ \E value \in ViewTerms :
       /\ value # vSearchTerm
       /\ vSearchTerm' = value
  /\ UNCHANGED <<vPage, vRows, vDevices, selected>>
  /\ UNCHANGED notView

\* A dropdown's onChange.
setSelected(f) ==
  /\ f \in PageFilters(vPage)
  /\ \E value \in FilterOptions(vPage, f) \cup {<<>>} :
       /\ value # selected[f]
       /\ selected' = [selected EXCEPT ![f] = value]
  /\ UNCHANGED <<vPage, vRows, vDevices, vSearchTerm>>
  /\ UNCHANGED notView

ViewNext ==
  \/ setRows
  \/ Clients_setDevices
  \/ setSearchTerm
  \/ \E f \in AllFilters : setSelected(f)

(***************************************************************************)
(* Part 8: the sort state of a list page (Devices, Interventions,          *)
(* Operators, QuotesInvoices): sortField, sortDirection and handleSort,    *)
(* which the column headers call with their field.                         *)
(***************************************************************************)
\* Clicks on column headers during one visit of the page.
MaxSortClicks == 3

SortPages == {"Devices", "Interventions", "Operators", "QuotesInvoices"}

\* The fields the column headers of a page pass to handleSort.
SortFields(p) ==
  CASE p = "Devices" -> {"id", "code", "brand", "category", "external_condition",
                         "grade", "storage_location", "client_name", "in_stock"}
    [] p = "Interventions" -> {"id", "type", "status", "intervention_date"}
    [] p = "Operators" -> {"id", "full_name", "role", "access_level", "created_at"}
    [] OTHER -> {"id", "document_type", "amount", "status", "issue_date",
                 "payment_date"}

AllSortFields == UNION { SortFields(p) : p \in SortPages }

\* The value of a row's field: a string, a number, a boolean or null.
SvString(s) == [type |-> "string", text |-> s, num |-> 0]

SvNumber(n) == [type |-> "number", text |-> <<>>, num |-> n]

SvBoolean(b) == [type |-> "boolean", text |-> <<>>, num |-> IF b THEN 1 ELSE 0]

SvNull == [type |-> "null", text |-> <<>>, num |-> 0]

\* The sort fields that hold null in some rows: storage_location and
\* payment_date are nullable columns, client_name comes from a LEFT JOIN.
NullableSortFields == {"storage_location", "client_name", "payment_date"}

\* A filtered row: id, the value of its nullable sort fields, and one text
\* for its other fields (amount is a number).
SortRow(p, id, text, opt) ==
  [f \in SortFields(p) |->
     CASE f = "id" -> SvNumber(id)
       [] f = "amount" -> SvNumber(10 * id)
       [] f = "in_stock" -> SvBoolean(id = 1)
       [] f \in NullableSortFields -> opt
       [] OTHER -> SvString(text)]

\* The filtered lists that are drawn.
SortRowLists(p) ==
  { <<>>,
    << SortRow(p, 2, <<"B">>, SvString(<<"b">>)),
       SortRow(p, 1, <<"a">>, SvString(<<"A">>)) >>,
    << SortRow(p, 1, <<"b">>, SvString(<<"b">>)),
       SortRow(p, 3, <<"C">>, SvNull),
       SortRow(p, 2, <<"a">>, SvString(<<"a">>)) >> }

\* The order of the UTF-16 code units of the characters that occur.
CodeUnits ==
  << " ", "-", "0", "1", "2", "3", "4", "5", "6", "7", "8", "9", "@",
     "A", "B", "C", "D", "E", "F", "G", "H", "I", "J", "K", "L", "M", "N", "O",
     "P", "Q", "R", "S", "T", "U", "V", "W", "X", "Y", "Z",
     "a", "b", "c", "d", "e", "f", "g", "h", "i", "j", "k", "l", "m", "n", "o",
     "p", "q", "r", "s", "t", "u", "v", "w", "x", "y", "z",
     "E_grave", "E_acute", "e_grave", "e_acute", "o_circ" >>

CharCode(c) == CHOOSE i \in DOMAIN CodeUnits : CodeUnits[i] = c

\* s < t for two strings: by code units, a proper prefix first.
RECURSIVE StringLess(_, _)
StringLess(s, t) ==
  IF t = <<>> THEN FALSE
  ELSE IF s = <<>> THEN TRUE
  ELSE IF Head(s) # Head(t) THEN CharCode(Head(s)) < CharCode(Head(t))
  ELSE StringLess(Tail(s), Tail(t))

\* ToNumber gives NaN for a string that is not a numeral (none of the
\* texts drawn is one) and 0 for null.
IsNaN(v) == v.type = "string"

\* a < b: two strings by code units; otherwise both as numbers, and false
\* when either is NaN.
JsLess(a, b) ==
  IF a.type = "string" /\ b.type = "string" THEN StringLess(a.text, b.text)
  ELSE ~IsNaN(a) /\ ~IsNaN(b) /\ a.num < b.num

\* if (typeof v === 'string') v = v.toLowerCase().
LowerIfString(v) == IF v.type = "string" THEN SvString(toLowerCase(v.text)) ELSE v

\* The comparator passed to sort.
compareRows(a, b, field, direction) ==
  IF field = "" THEN 0
  ELSE LET aValue == LowerIfString(a[field])
           bValue == LowerIfString(b[field])
       IN  IF JsLess(aValue, bValue) THEN (IF direction = "asc" THEN -1 ELSE 1)
           ELSE IF JsLess(bValue, aValue) THEN (IF direction = "asc" THEN 1 ELSE -1)
           ELSE 0

\* The comparator is a consistent comparator for the rows: it orders them
\* as a strict weak order.
ConsistentComparator(filtered, field, direction) ==
  LET S == { filtered[i] : i \in DOMAIN filtered }
      cmp(a, b) == compareRows(a, b, field, direction)
  IN  \A a, b, c \in S :
        /\ cmp(a, a) = 0
        /\ cmp(a, b) = 0 - cmp(b, a)
        /\ (cmp(a, b) = 0 /\ cmp(b, c) = 0) => cmp(a, c) = 0
        /\ (cmp(a, b) < 0 /\ cmp(b, c) < 0) => cmp(a, c) < 0
        /\ (cmp(a, b) = 0 /\ cmp(b, c) < 0) => cmp(a, c) < 0
        /\ (cmp(a, b) < 0 /\ cmp(b, c) = 0) => cmp(a, c) < 0

\* The orders of the positions of a list.
Orders(n) == { o \in [1..n -> 1..n] : \A i, j \in 1..n : i # j => o[i] # o[j] }

\* [...filtered].sort(comparator): the stable sort when the comparator is
\* consistent; otherwise the language leaves the order to the
\* implementation, and any order of the filtered is an outcome.
SortOutcomes(filtered, field, direction) ==
  LET n == Len(filtered)
      Stable(o) ==
        \A i, j \in 1..n :
          i < j =>
            LET c == compareRows(filtered[o[i]], filtered[o[j]], field, direction)
            IN  c < 0 \/ (c = 0 /\ o[i] < o[j])
      picked == IF ConsistentComparator(filtered, field, direction)
                THEN { o \in Orders(n) : Stable(o) }
                ELSE Orders(n)
  IN  { [i \in 1..n |-> filtered[o[i]]] : o \in picked }

\* What the page can show: sortedDevices and the like.
sortedRows == SortOutcomes(sortRows, sortField, sortDirection)

SortInit ==
  /\ sortPage \in SortPages
  /\ sortField = ""
  /\ sortDirection = "asc"
  /\ sortClicks = 0
  /\ sortArg = ""
  /\ sortRows \in SortRowLists(sortPage)

SortIdle ==
  /\ sortPage = "none"
  /\ sortField = ""
  /\ sortDirection = "asc"
  /\ sortClicks = 0
  /\ sortArg = ""
  /\ sortRows = <<>>

\* handleSort as it would be with a third click returning to no sort.
handleSort_triState(field) ==
  /\ field \in SortFields(sortPage)
  /\ sortClicks < MaxSortClicks
  /\ sortClicks' = sortClicks + 1
  /\ sortArg' = field
  /\ IF sortField = field
     THEN IF sortDirection = "asc"
          THEN /\ sortDirection' = "desc"
               /\ UNCHANGED sortField
          ELSE /\ sortField' = ""
               /\ sortDirection' = "asc"
     ELSE /\ sortField' = field
          /\ sortDirection' = "asc"
  /\ UNCHANGED <<sortPage, sortRows>>
  /\ UNCHANGED notSort

\* handleSort(field).
handleSort(field) ==
  /\ field \in SortFields(sortPage)
  /\ sortClicks < MaxSortClicks
  /\ sortClicks' = sortClicks + 1
  /\ sortArg' = field
  /\ IF sortField = field
     THEN /\ sortDirection' = IF sortDirection = "asc" THEN "desc" ELSE "asc"
          /\ UNCHANGED sortField
     ELSE /\ sortField' = field
          /\ sortDirection' = "asc"
  /\ UNCHANGED <<sortPage, sortRows>>
  /\ UNCHANGED notSort

SortNext == \E field \in AllSortFields : handleSort(field)

(***************************************************************************)
(* Part 9: the view clients_with_devices.                                  *)
(* Amounts are in cents.  A device row is [id, client_id] with client_id   *)
(* SqlNull when the device has no client; a quotes_invoices row is         *)
(* [id, client_id, amount] with client_id and amount NOT NULL.             *)
(***************************************************************************)
\* Statements run on the three tables.
MaxTotalsOps == 3

\* The clients of the table.
TotalsClients == {1, 2}

\* The amounts of the documents inserted.
Amounts == {1000, 2500}

TotalsInit ==
  /\ twClients = TotalsClients
  /\ twDevices = {}
  /\ twQuotes = {}
  /\ twSeq = [t \in {"devices", "quotes_invoices"} |-> 1]
  /\ twOps = 0

TotalsIdle ==
  /\ twClients = {}
  /\ twDevices = {}
  /\ twQuotes = {}
  /\ twSeq = [t \in {"devices", "quotes_invoices"} |-> 1]
  /\ twOps = 0

\* INSERT INTO devices, for client c or without a client.
InsertDevice(c) ==
  /\ twOps < MaxTotalsOps
  /\ c = SqlNull \/ c \in twClients
  /\ twDevices' = twDevices \cup {[id |-> twSeq["devices"], client_id |-> c]}
  /\ twSeq' = [twSeq EXCEPT !["devices"] = @ + 1]
  /\ twOps' = twOps + 1
  /\ UNCHANGED <<twClients, twQuotes>>
  /\ UNCHANGED notTotals

\* INSERT INTO quotes_invoices, for client c.
InsertQuoteInvoice(c, amount) ==
  /\ twOps < MaxTotalsOps
  /\ c \in twClients
  /\ twQuotes' = twQuotes \cup
       {[id |-> twSeq["quotes_invoices"], client_id |-> c, amount |-> amount]}
  /\ twSeq' = [twSeq EXCEPT !["quotes_invoices"] = @ + 1]
  /\ twOps' = twOps + 1
  /\ UNCHANGED <<twClients, twDevices>>
  /\ UNCHANGED notTotals

\* DELETE FROM devices WHERE id = ...
DeleteDevice ==
  /\ twOps < MaxTotalsOps
  /\ \E d \in twDevices : twDevices' = twDevices \ {d}
  /\ twOps' = twOps + 1
  /\ UNCHANGED <<twClients, twQuotes, twSeq>>
  /\ UNCHANGED notTotals

\* DELETE FROM quotes_invoices WHERE id = ...
DeleteQuoteInvoice ==
  /\ twOps < MaxTotalsOps
  /\ \E q \in twQuotes : twQuotes' = twQuotes \ {q}
  /\ twOps' = twOps + 1
  /\ UNCHANGED <<twClients, twDevices, twSeq>>
  /\ UNCHANGED notTotals

\* DELETE FROM clients WHERE id = ...: the client's documents go with it
\* (ON DELETE CASCADE), its devices lose their client (ON DELETE SET NULL).
DeleteClient ==
  /\ twOps < MaxTotalsOps
  /\ \E c \in twClients :
       /\ twClients' = twClients \ {c}
       /\ twQuotes' = { q \in twQuotes : q.client_id # c }
       /\ twDevices' = { IF d.client_id = c THEN [d EXCEPT !.client_id = SqlNull] ELSE d :
                         d \in twDevices }
  /\ twOps' = twOps + 1
  /\ UNCHANGED twSeq
  /\ UNCHANGED notTotals

\* The row of an outer join's right side when nothing matches: all NULL.
NullRow == [id |-> SqlNull, client_id |-> SqlNull, amount |-> SqlNull]

\* clients c LEFT JOIN devices d ON c.id = d.client_id
\*           LEFT JOIN quotes_invoices qi ON c.id = qi.client_id,
\* the rows of the group of client c: one per pair of a matching device
\* and a matching document.
JoinedRows(c, devs, quotes) ==
  LET ds == { d \in devs : d.client_id = c }
      qs == { q \in quotes : q.client_id = c }
      dside == IF ds = {} THEN {NullRow} ELSE ds
      qside == IF qs = {} THEN {NullRow} ELSE qs
  IN  { [d |-> d, qi |-> q] : d \in dside, q \in qside }

\* SUM(qi.amount) over rows: NULL amounts are skipped; the sum of no
\* amount is NULL.
RECURSIVE SumAmount(_)
SumAmount(joined) ==
  IF joined = {} THEN 0
  ELSE LET r == CHOOSE x \in joined : TRUE
       IN  (IF r.qi.id = SqlNull THEN 0 ELSE r.qi.amount) + SumAmount(joined \ {r})

\* COUNT(DISTINCT ...) of a column: the distinct values that are not NULL.
CountDistinct(ids) == Cardinality(ids \ {SqlNull})

\* The row of the view for client c (GROUP BY c.id).
clients_with_devices_row(c, devs, quotes) ==
  LET joined == JoinedRows(c, devs, quotes)
  IN  [id |-> c,
       device_count |-> CountDistinct({ r.d.id : r \in joined }),
       quote_invoice_count |-> CountDistinct({ r.qi.id : r \in joined }),
       total_amount |-> SumAmount(joined)]

TotalsNext ==
  \/ \E c \in TotalsClients \cup {SqlNull} : InsertDevice(c)
  \/ \E c \in TotalsClients, amount \in Amounts : InsertQuoteInvoice(c, amount)
  \/ DeleteDevice
  \/ DeleteQuoteInvoice
  \/ DeleteClient

(***************************************************************************)
(* Part 10: the search box of the Dashboard.                               *)
(* The effect on [searchTerm] runs after every render that changed the     *)
(* term: it calls performSearch (four queries in one Promise.all) for a    *)
(* non-empty term and empties searchResults otherwise.  The backend        *)
(* answers the searches in flight in any order.  The tables do not change. *)
(***************************************************************************)
\* Changes of the search term.
MaxSearches == 3

\* .limit(5) of the four queries.
SearchLimit == 5

\* The terms typed.
SearchTerms == { <<>>, <<"d">>, <<"d", "e">>, <<"1">> }

SearchedTables == {"devices", "interventions", "clients", "operators"}

\* The rows of the four tables; device and operator of an intervention are
\* the embedded rows (both columns are NOT NULL references).
SearchTable(t) ==
  CASE t = "devices" ->
         << [id |-> 1, brand |-> <<"D", "e">>, model |-> <<"X">>, category |-> <<"S">>],
            [id |-> 2, brand |-> <<"H">>, model |-> <<"D">>, category |-> <<"S">>] >>
    [] t = "interventions" ->
         << [id |-> 1, type |-> <<"R">>, status |-> <<"E">>, device |-> 1, operator |-> 1],
            [id |-> 2, type |-> <<"d">>, status |-> <<"T">>, device |-> 2, operator |-> 1] >>
    [] t = "clients" ->
         << [id |-> 1, name |-> <<"d", "E">>, first_name |-> <<"A">>,
             company |-> <<>>, email |-> <<"a">>] >>
    [] OTHER ->
         << [id |-> 1, full_name |-> <<"O">>, role |-> <<"T">>] >>

\* The columns the .or() filter of each query names with ilike.
SearchColumns(t) ==
  CASE t = "devices" -> {"brand", "model", "category"}
    [] t = "interventions" -> {"type", "status"}
    [] t = "clients" -> {"name", "first_name", "company", "email"}
    [] OTHER -> {"full_name", "role"}

\* isNaN(Number(searchTerm)) ? '0' : searchTerm, as the id it selects.
SearchId(term) ==
  IF \E n \in 1..9 : NumberToString(n) = term
  THEN CHOOSE n \in 1..9 : NumberToString(n) = term
  ELSE 0

\* column ILIKE %term%.
ilike(value, term) == includes(toLowerCase(value), toLowerCase(term))

\* What the search of a term gives when the four queries return rows: per
\* table the first rows that match, then the filter of performSearch.
SearchResult(term) ==
  [t \in SearchedTables |->
     LET matches(r) == \/ \E c \in SearchColumns(t) : ilike(r[c], term)
                       \/ r.id = SearchId(term)
         data == Take(SelectSeq(SearchTable(t), matches), SearchLimit)
         valid(r) == /\ r.id # 0
                     /\ t = "interventions" => (r.device # 0 /\ r.operator # 0)
     IN  SelectSeq(data, valid)]

EmptyResults == [t \in SearchedTables |-> <<>>]

NoSearchStep == [kind |-> "none", term |-> <<>>]

SearchInit ==
  /\ dashSearchTerm = <<>>
  /\ searchResults = EmptyResults
  /\ searches = {}
  /\ nSearches = 0
  /\ searchStep = NoSearchStep

SearchIdle ==
  /\ dashSearchTerm = <<>>
  /\ searchResults = EmptyResults
  /\ searches = {}
  /\ nSearches = 0
  /\ searchStep = NoSearchStep

\* The user changes the search box: setSearchTerm, then the effect.
Dashboard_setSearchTerm(term) ==
  /\ nSearches < MaxSearches
  /\ term # dashSearchTerm
  /\ dashSearchTerm' = term
  /\ nSearches' = nSearches + 1
  /\ IF term # <<>>
     THEN /\ searches' = searches \cup {[n |-> nSearches + 1, term |-> term]}
          /\ UNCHANGED searchResults
     ELSE /\ searchResults' = EmptyResults
          /\ UNCHANGED searches
  /\ searchStep' = [kind |-> "setSearchTerm", term |-> term]
  /\ UNCHANGED notSearch

\* The four queries of a search have answered: outcome "ok" with rows,
\* "error" with error results ({data: null}).
performSearch_then(s, outcome) ==
  /\ s \in searches
  /\ searches' = searches \ {s}
  /\ searchResults' = IF outcome = "ok" THEN SearchResult(s.term) ELSE EmptyResults
  /\ searchStep' = [kind |-> outcome, term |-> s.term]
  /\ UNCHANGED <<dashSearchTerm, nSearches>>
  /\ UNCHANGED notSearch

\* A query of a search is rejected: the catch block empties the results.
performSearch_catch(s) ==
  /\ s \in searches
  /\ searches' = searches \ {s}
  /\ searchResults' = EmptyResults
  /\ searchStep' = [kind |-> "rejected", term |-> s.term]
  /\ UNCHANGED <<dashSearchTerm, nSearches>>
  /\ UNCHANGED notSearch

SearchesInFlight ==
  { [n |-> n, term |-> term] : n \in 1..MaxSearches, term \in SearchTerms }

SearchNext ==
  \/ \E term \in SearchTerms : Dashboard_setSearchTerm(term)
  \/ \E s \in SearchesInFlight, outcome \in {"ok", "error"} : performSearch_then(s, outcome)
  \/ \E s \in SearchesInFlight : performSearch_catch(s)

(***************************************************************************)
(* Part 11: the files of a device (DeviceForm.handleFileUpload and         *)
(* handleDeleteFile).  The form is open on device 1; fileRows is the       *)
(* device_files table, objects the paths stored in the device-files        *)
(* bucket.  Each backend request ends "ok", with an error result           *)
(* ("error": the promise resolves to {data: null, error}) or with a        *)
(* rejected promise ("rejected").  One handler runs at a time.             *)
(***************************************************************************)
\* Calls of the two handlers.
MaxFileCalls == 2

\* The names of the files picked.
FileNames == {"a.pdf", "b.png"}

Outcomes == {"ok", "error", "rejected"}

\* `${id}/${file.name}` for the device of the form.
FilePath(name) == <<1, name>>

NoFileCall == [kind |-> "none", stage |-> "none", name |-> "", fileId |-> 0,
               file_url |-> <<>>]

FilesInit ==
  /\ \E names \in SUBSET {"a.pdf"} :
       /\ fileRows = { [id |-> 1, file_url |-> FilePath(n)] : n \in names }
       /\ objects = { FilePath(n) : n \in names }
  /\ fileSeq = 2
  /\ fileCall = NoFileCall
  /\ nFileCalls = 0
  /\ fileError = FALSE
  /\ fileFailures = 0

FilesIdle ==
  /\ fileRows = {}
  /\ objects = {}
  /\ fileSeq = 2
  /\ fileCall = NoFileCall
  /\ nFileCalls = 0
  /\ fileError = FALSE
  /\ fileFailures = 0

Failed(outcome) == IF outcome = "ok" THEN 0 ELSE 1

\* handleFileUpload up to its first await: the upload is requested.
handleFileUpload(name) ==
  /\ fileCall = NoFileCall
  /\ nFileCalls < MaxFileCalls
  /\ nFileCalls' = nFileCalls + 1
  /\ fileCall' = [NoFileCall EXCEPT !.kind = "upload", !.stage = "upload",
                                    !.name = name]
  /\ UNCHANGED <<fileRows, objects, fileSeq, fileError, fileFailures>>
  /\ UNCHANGED notFiles

\* storage.from('device-files').upload(path, file) has answered.  The
\* bucket refuses a path that exists (no upsert).  On "ok" the handler goes
\* on to insert the metadata; otherwise its catch block runs.
handleFileUpload_uploaded(outcome) ==
  /\ fileCall.kind = "upload" /\ fileCall.stage = "upload"
  /\ outcome = "ok" => FilePath(fileCall.name) \notin objects
  /\ IF outcome = "ok"
     THEN /\ objects' = objects \cup {FilePath(fileCall.name)}
          /\ fileCall' = [fileCall EXCEPT !.stage = "insert",
                                          !.file_url = FilePath(fileCall.name)]
          /\ UNCHANGED fileError
     ELSE /\ fileCall' = NoFileCall
          /\ fileError' = TRUE
          /\ UNCHANGED objects
  /\ fileFailures' = fileFailures + Failed(outcome)
  /\ UNCHANGED <<fileRows, fileSeq, nFileCalls>>
  /\ UNCHANGED notFiles

\* from('device_files').insert([...]) has answered.
handleFileUpload_inserted(outcome) ==
  /\ fileCall.kind = "upload" /\ fileCall.stage = "insert"
  /\ IF outcome = "ok"
     THEN /\ fileRows' = fileRows \cup {[id |-> fileSeq, file_url |-> fileCall.file_url]}
          /\ fileSeq' = fileSeq + 1
          /\ UNCHANGED fileError
     ELSE /\ fileError' = TRUE
          /\ UNCHANGED <<fileRows, fileSeq>>
  /\ fileCall' = NoFileCall
  /\ fileFailures' = fileFailures + Failed(outcome)
  /\ UNCHANGED <<objects, nFileCalls>>
  /\ UNCHANGED notFiles

\* handleDeleteFile up to its first await: after confirm(), the row's
\* file_url is requested.
handleDeleteFile(fileId, confirmed) ==
  /\ fileCall = NoFileCall
  /\ nFileCalls < MaxFileCalls
  /\ \E r \in fileRows : r.id = fileId
  /\ nFileCalls' = nFileCalls + 1
  /\ fileCall' = IF confirmed
                 THEN [NoFileCall EXCEPT !.kind = "delete", !.stage = "select",
                                         !.fileId = fileId]
                 ELSE NoFileCall
  /\ UNCHANGED <<fileRows, objects, fileSeq, fileError, fileFailures>>
  /\ UNCHANGED notFiles

\* select('file_url').eq('id', fileId).single() has answered.  Only data is
\* read: with an error result fileData is null, the removal from the bucket
\* is skipped and the handler goes on to delete the row.
handleDeleteFile_selected(outcome) ==
  /\ fileCall.kind = "delete" /\ fileCall.stage = "select"
  /\ IF outcome = "rejected"
     THEN /\ fileCall' = NoFileCall
          /\ fileError' = TRUE
     ELSE /\ LET found == { r \in fileRows : r.id = fileCall.fileId }
                 fileData == IF outcome = "ok" /\ found # {}
                             THEN (CHOOSE r \in found : TRUE).file_url
                             ELSE <<>>
             IN  fileCall' = [fileCall EXCEPT
                                !.stage = IF fileData # <<>> THEN "remove" ELSE "delete",
                                !.file_url = fileData]
          /\ UNCHANGED fileError
  /\ fileFailures' = fileFailures + Failed(outcome)
  /\ UNCHANGED <<fileRows, objects, fileSeq, nFileCalls>>
  /\ UNCHANGED notFiles

\* storage.from('device-files').remove([file_url]) has answered.  Its
\* result is not read: an error result changes nothing and the handler goes
\* on to delete the row.
handleDeleteFile_removed(outcome) ==
  /\ fileCall.kind = "delete" /\ fileCall.stage = "remove"
  /\ objects' = IF outcome = "ok" THEN objects \ {fileCall.file_url} ELSE objects
  /\ IF outcome = "rejected"
     THEN /\ fileCall' = NoFileCall
          /\ fileError' = TRUE
     ELSE /\ fileCall' = [fileCall EXCEPT !.stage = "delete"]
          /\ UNCHANGED fileError
  /\ fileFailures' = fileFailures + Failed(outcome)
  /\ UNCHANGED <<fileRows, fileSeq, nFileCalls>>
  /\ UNCHANGED notFiles

\* from('device_files').delete().eq('id', fileId) has answered.
handleDeleteFile_deleted(outcome) ==
  /\ fileCall.kind = "delete" /\ fileCall.stage = "delete"
  /\ IF outcome = "ok"
     THEN /\ fileRows' = { r \in fileRows : r.id # fileCall.fileId }
          /\ UNCHANGED fileError
     ELSE /\ fileError' = TRUE
          /\ UNCHANGED fileRows
  /\ fileCall' = NoFileCall
  /\ fileFailures' = fileFailures + Failed(outcome)
  /\ UNCHANGED <<objects, fileSeq, nFileCalls>>
  /\ UNCHANGED notFiles

FilesNext ==
  \/ \E name \in FileNames : handleFileUpload(name)
  \/ \E outcome \in Outcomes : handleFileUpload_uploaded(outcome)
  \/ \E outcome \in Outcomes : handleFileUpload_inserted(outcome)
  \/ \E fileId \in 1..(MaxFileCalls + 1), confirmed \in BOOLEAN :
       handleDeleteFile(fileId, confirmed)
  \/ \E outcome \in Outcomes : handleDeleteFile_selected(outcome)
  \/ \E outcome \in Outcomes : handleDeleteFile_removed(outcome)
  \/ \E outcome \in Outcomes : handleDeleteFile_deleted(outcome)

(***************************************************************************)
(* Part 12: handleDelete of the detail pages, on the database of Part 5.   *)
(* A page is open on the record of id detId of its table; the signed-in    *)
(* user (session) clicks the delete button.  The DELETE runs under the     *)
(* policies and the foreign keys of Part 5.                                *)
(***************************************************************************)
DetailPages == {"DeviceDetail", "ClientDetail", "OperatorDetail",
                "InterventionDetail", "QuoteInvoiceDetail"}

\* supabase.from(...) of each page's handleDelete.
DetailTable(p) ==
  CASE p = "DeviceDetail" -> "devices"
    [] p = "ClientDetail" -> "clients"
    [] p = "OperatorDetail" -> "operators"
    [] p = "InterventionDetail" -> "interventions"
    [] OTHER -> "quotes_invoices"

NoDetailStep == [kind |-> "none", result |-> "none"]

DetailInit ==
  /\ DbInit
  /\ detPage \in DetailPages
  /\ detId = 1
  /\ detRoute = "detail"
  /\ detStep = NoDetailStep

DetailIdle ==
  /\ detPage = "none"
  /\ detId = 0
  /\ detRoute = "none"
  /\ detStep = NoDetailStep

\* handleDelete: after window.confirm, DELETE ... WHERE id = detId; the
\* page navigates to the list unless the answer carries an error or the
\* request is rejected.  A row that does not pass the policy's USING is not
\* deleted and the answer carries no error.
Detail_handleDelete(confirmed, network) ==
  /\ detRoute = "detail"
  /\ LET t == DetailTable(detPage)
         doomed == Cascade(db, {<<t, detId>>})
         result ==
           IF network = "rejected" THEN "rejected"
           ELSE IF detId \notin Ids(db, t)
                   \/ ~Using(db, session, t, "DELETE", Row(t, detId)) THEN "none"
           ELSE IF Blocked(db, doomed) THEN "error"
           ELSE "ok"
     IN  IF ~confirmed
         THEN /\ detStep' = [kind |-> "cancelled", result |-> "none"]
              /\ UNCHANGED <<db, detRoute>>
         ELSE /\ detStep' = [kind |-> "handleDelete", result |-> result]
              /\ db' = IF result = "ok" THEN AfterDelete(db, doomed) ELSE db
              /\ detRoute' = IF result \in {"ok", "none"} THEN "list" ELSE "detail"
  /\ UNCHANGED <<detPage, detId, seq, session, dbOps, dbstep>>
  /\ UNCHANGED notDetail

\* The user opens the record's detail page again from the list.
Detail_open ==
  /\ detRoute = "list"
  /\ detRoute' = "detail"
  /\ detStep' = [kind |-> "open", result |-> "none"]
  /\ UNCHANGED <<detPage, detId, dbVars>>
  /\ UNCHANGED notDetail

DetailNext ==
  \/ \E confirmed \in BOOLEAN, network \in {"ok", "rejected"} :
       Detail_handleDelete(confirmed, network)
  \/ Detail_open
  \/ \E u \in Users : SignIn(u)
  \/ Insert("operators")
  \/ Delete("operators")

(***************************************************************************)
(* Part 13: the address of a client.  The clients table keeps the address  *)
(* (text) and, since the migration that added them, number, street,        *)
(* postal_code and city (text, NULL unless given).  ClientForm edits the   *)
(* four components and writes the address it builds from them;             *)
(* DeviceForm.handleSaveClient inserts a client with an address and no     *)
(* component.  One client row is followed.                                 *)
(***************************************************************************)
\* Edits of the fields of the open form.
MaxAddrEdits == 1

\* SQL NULL, as the JavaScript null the client library returns for it.
JsNull == [type |-> "null", text |-> <<"n", "u", "l", "l">>]

AddrComponents == {"number", "street", "postal_code", "city"}

\* The texts typed in a component.
ComponentTexts == { <<>>, <<"1">>, <<"a">> }

\* The addresses of rows written before the components existed, or typed
\* in the client form of DeviceForm.
FreeAddresses == { Str(<<>>), Str(<<"1", " ", "a">>), Str(<<"a", ",", " ", "1">>), JsNull }

NoClient == [address |-> JsNull, number |-> JsNull, street |-> JsNull,
             postal_code |-> JsNull, city |-> JsNull, exists |-> FALSE]

ClosedClientForm == [open |-> FALSE, address |-> Str(<<>>), number |-> Str(<<>>),
                     street |-> Str(<<>>), postal_code |-> Str(<<>>),
                     city |-> Str(<<>>), edits |-> 0]

NoAddrStep == [kind |-> "none", before |-> JsNull, edits |-> 0]

\* String.prototype.trim, the white space being the space character.
RECURSIVE TrimStart(_)
TrimStart(s) == IF s # <<>> /\ Head(s) = " " THEN TrimStart(Tail(s)) ELSE s

RECURSIVE TrimEnd(_)
TrimEnd(s) ==
  IF s # <<>> /\ s[Len(s)] = " " THEN TrimEnd(SubSeq(s, 1, Len(s) - 1)) ELSE s

trim(s) == TrimEnd(TrimStart(s))

\* `${formData.number} ${formData.street}, ${formData.postal_code} ${formData.city}`.trim()
fullAddress(f) ==
  Str(trim(JsToString(f.number) \o <<" ">> \o JsToString(f.street) \o <<",", " ">>
           \o JsToString(f.postal_code) \o <<" ">> \o JsToString(f.city)))

\* data.number || '' and the like.
OrEmptyString(v) == IF v.type = "string" /\ v.text # <<>> THEN v ELSE Str(<<>>)

\* A legacy row, or a row DeviceForm.handleSaveClient inserted.
AddrInit ==
  /\ \E a \in FreeAddresses : addrClient = [NoClient EXCEPT !.address = a, !.exists = TRUE]
  /\ addrForm = ClosedClientForm
  /\ addrStep = NoAddrStep

AddrIdle ==
  /\ addrClient = NoClient
  /\ addrForm = ClosedClientForm
  /\ addrStep = NoAddrStep

\* DeviceForm.handleSaveClient: INSERT of clientFormData, which has an
\* address and none of the four components (the row that is followed).
handleSaveClient(a) ==
  /\ ~addrForm.open
  /\ a # JsNull
  /\ addrClient' = [NoClient EXCEPT !.address = a, !.exists = TRUE]
  /\ addrStep' = [kind |-> "handleSaveClient", before |-> JsNull, edits |-> 0]
  /\ UNCHANGED addrForm
  /\ UNCHANGED notAddr

\* ClientForm without id, filled and submitted: INSERT of the form's fields
\* with the address built from the components.
ClientForm_create(number, street, postal_code, city) ==
  /\ ~addrForm.open
  /\ LET f == [number |-> Str(number), street |-> Str(street),
               postal_code |-> Str(postal_code), city |-> Str(city)]
     IN  addrClient' = [address |-> fullAddress(f), number |-> f.number,
                        street |-> f.street, postal_code |-> f.postal_code,
                        city |-> f.city, exists |-> TRUE]
  /\ addrStep' = [kind |-> "create", before |-> JsNull, edits |-> 0]
  /\ UNCHANGED addrForm
  /\ UNCHANGED notAddr

\* ClientForm with the id of the client: fetchClient fills the form.
fetchClient ==
  /\ ~addrForm.open
  /\ addrClient.exists
  /\ addrForm' = [open |-> TRUE, address |-> addrClient.address,
                  number |-> OrEmptyString(addrClient.number),
                  street |-> OrEmptyString(addrClient.street),
                  postal_code |-> OrEmptyString(addrClient.postal_code),
                  city |-> OrEmptyString(addrClient.city), edits |-> 0]
  /\ addrStep' = [kind |-> "fetchClient", before |-> addrClient.address, edits |-> 0]
  /\ UNCHANGED addrClient
  /\ UNCHANGED notAddr

\* handleChange on one of the four component inputs.
ClientForm_handleChange(name, value) ==
  /\ addrForm.open
  /\ addrForm.edits < MaxAddrEdits
  /\ name \in AddrComponents
  /\ addrForm[name] # Str(value)
  /\ addrForm' = [addrForm EXCEPT ![name] = Str(value), !.edits = @ + 1]
  /\ addrStep' = [kind |-> "handleChange", before |-> addrClient.address,
                  edits |-> addrForm.edits + 1]
  /\ UNCHANGED addrClient
  /\ UNCHANGED notAddr

\* handleSubmit with an id: UPDATE clients SET (the form's fields, address
\* the built one) WHERE id = id; on success the page goes to the list.
ClientForm_handleSubmit(outcome) ==
  /\ addrForm.open
  /\ IF outcome = "ok"
     THEN /\ addrClient' = [address |-> fullAddress(addrForm),
                            number |-> addrForm.number, street |-> addrForm.street,
                            postal_code |-> addrForm.postal_code,
                            city |-> addrForm.city, exists |-> TRUE]
          /\ addrForm' = ClosedClientForm
     ELSE UNCHANGED <<addrClient, addrForm>>
  /\ addrStep' = [kind |-> IF outcome = "ok" THEN "handleSubmit" ELSE "failed",
                  before |-> addrClient.address, edits |-> addrForm.edits]
  /\ UNCHANGED notAddr

AddrNext ==
  \/ \E a \in FreeAddresses : handleSaveClient(a)
  \/ \E number, street, postal_code, city \in ComponentTexts :
       ClientForm_create(number, street, postal_code, city)
  \/ fetchClient
  \/ \E name \in AddrComponents, value \in ComponentTexts :
       ClientForm_handleChange(name, value)
  \/ \E outcome \in {"ok", "error"} : ClientForm_handleSubmit(outcome)

(***************************************************************************)
(* The specifications.                                                     *)
(***************************************************************************)
vars == <<catVars, listVars, dashVars, crudVars, dbVars, opFormVars, viewVars,
          sortVars, totalsVars, searchVars, filesVars, detailVars, addrVars>>

InitCat == CatInit /\ ListIdle /\ DashIdle /\ CrudIdle /\ DbIdle /\ OpFormIdle
  /\ ViewIdle /\ SortIdle /\ TotalsIdle /\ SearchIdle /\ FilesIdle
  /\ DetailIdle /\ AddrIdle

SpecCat == InitCat /\ [][CatNext]_vars

InitList == ListInit /\ CatIdle /\ DashIdle /\ CrudIdle /\ DbIdle /\ OpFormIdle
  /\ ViewIdle /\ SortIdle /\ TotalsIdle /\ SearchIdle /\ FilesIdle
  /\ DetailIdle /\ AddrIdle

SpecList == InitList /\ [][ListNext]_vars

InitDash == DashInit /\ CatIdle /\ ListIdle /\ CrudIdle /\ DbIdle /\ OpFormIdle
  /\ ViewIdle /\ SortIdle /\ TotalsIdle /\ SearchIdle /\ FilesIdle
  /\ DetailIdle /\ AddrIdle

SpecDash == InitDash /\ [][DashNext]_vars

InitCrud == CrudInit /\ CatIdle /\ ListIdle /\ DashIdle /\ DbIdle /\ OpFormIdle
  /\ ViewIdle /\ SortIdle /\ TotalsIdle /\ SearchIdle /\ FilesIdle
  /\ DetailIdle /\ AddrIdle

SpecCrud == InitCrud /\ [][CrudNext]_vars

InitDb == DbInit /\ CatIdle /\ ListIdle /\ DashIdle /\ CrudIdle /\ OpFormIdle
  /\ ViewIdle /\ SortIdle /\ TotalsIdle /\ SearchIdle /\ FilesIdle
  /\ DetailIdle /\ AddrIdle

SpecDb == InitDb /\ [][DbNext]_vars

InitOpForm == OpFormInit /\ CatIdle /\ ListIdle /\ DashIdle /\ CrudIdle
  /\ ViewIdle /\ SortIdle /\ TotalsIdle /\ SearchIdle /\ FilesIdle
  /\ DetailIdle /\ AddrIdle

SpecOpForm == InitOpForm /\ [][OpFormNext]_vars

InitView ==
  ViewInit /\ CatIdle /\ ListIdle /\ DashIdle /\ CrudIdle /\ DbIdle /\ OpFormIdle
  /\ SortIdle /\ TotalsIdle /\ SearchIdle /\ FilesIdle /\ DetailIdle
  /\ AddrIdle

SpecView == InitView /\ [][ViewNext]_vars

InitSort ==
  SortInit /\ CatIdle /\ ListIdle /\ DashIdle /\ CrudIdle /\ DbIdle /\ OpFormIdle
  /\ ViewIdle /\ TotalsIdle /\ SearchIdle /\ FilesIdle /\ DetailIdle
  /\ AddrIdle

SpecSort == InitSort /\ [][SortNext]_vars

InitTotals ==
  TotalsInit /\ CatIdle /\ ListIdle /\ DashIdle /\ CrudIdle /\ DbIdle /\ OpFormIdle
  /\ ViewIdle /\ SortIdle /\ SearchIdle /\ FilesIdle /\ DetailIdle
  /\ AddrIdle

SpecTotals == InitTotals /\ [][TotalsNext]_vars

InitSearch ==
  SearchInit /\ CatIdle /\ ListIdle /\ DashIdle /\ CrudIdle /\ DbIdle /\ OpFormIdle
  /\ ViewIdle /\ SortIdle /\ TotalsIdle /\ FilesIdle /\ DetailIdle
  /\ AddrIdle

SpecSearch == InitSearch /\ [][SearchNext]_vars

InitFiles ==
  FilesInit /\ CatIdle /\ ListIdle /\ DashIdle /\ CrudIdle /\ DbIdle /\ OpFormIdle
  /\ ViewIdle /\ SortIdle /\ TotalsIdle /\ SearchIdle /\ DetailIdle
  /\ AddrIdle

SpecFiles == InitFiles /\ [][FilesNext]_vars

InitDetail ==
  DetailInit /\ CatIdle /\ ListIdle /\ DashIdle /\ CrudIdle /\ OpFormIdle /\ ViewIdle
  /\ SortIdle /\ TotalsIdle /\ SearchIdle /\ FilesIdle /\ AddrIdle

SpecDetail == InitDetail /\ [][DetailNext]_vars

InitAddr ==
  AddrInit /\ CatIdle /\ ListIdle /\ DashIdle /\ CrudIdle /\ DbIdle /\ OpFormIdle
  /\ ViewIdle /\ SortIdle /\ TotalsIdle /\ SearchIdle /\ FilesIdle /\ DetailIdle

SpecAddr == InitAddr /\ [][AddrNext]_vars

(***************************************************************************)
(* Claims about Part 1.                                                    *)
(***************************************************************************)

\* The abbreviation the mapping declares for one of its nine labels.
DeclaredAbbreviation(label) ==
  categoryDiminutives[CHOOSE i \in DOMAIN categoryDiminutives :
                        categoryDiminutives[i].key = label].value

\* The prefix the specification gives a category: its abbreviation when it
\* is one of the nine labels, the category itself otherwise.
SpecifiedPrefix(category) ==
  IF category \in CategoryLabels THEN DeclaredAbbreviation(category) ELSE category

\* C1: getCategoryAbbreviation is total over category strings: a label of
\* the mapping gives its abbreviation, every other string comes back
\* unchanged.
C1_AbbreviationTotal ==
  catRet.fn = "getCategoryAbbreviation" => catRet.val = Str(SpecifiedPrefix(catArg))

\* C2: getProductCode(category, code) is the abbreviation of the category
\* (the category itself when it is unknown), the separator "-" and the code,
\* with nothing added or removed.
C2_ProductCodeConcatenation ==
  catRet.fn = "getProductCode" =>
    catRet.val = Str(SpecifiedPrefix(catArg) \o <<"-">> \o codeArg)

IndexOfLabel(label) ==
  CHOOSE i \in DOMAIN categoryDiminutives : categoryDiminutives[i].key = label

\* C3: searchInCategoryAbbreviations(term) returns exactly the labels whose
\* lower-cased text, or whose lower-cased abbreviation, contains the
\* lower-cased term, once each and in declaration order; the empty term
\* returns all nine labels.
C3_SearchExactCaseInsensitive ==
  catRet.fn = "searchInCategoryAbbreviations" =>
    LET r == catRet.list
        t == toLowerCase(termArg)
    IN  /\ \A c \in CategoryLabels :
             (\E i \in 1..Len(r) : r[i] = c) <=>
               \/ includes(toLowerCase(c), t)
               \/ includes(toLowerCase(DeclaredAbbreviation(c)), t)
        /\ \A i \in 1..Len(r) : r[i] \in CategoryLabels
        /\ \A i, j \in 1..Len(r) : i < j => IndexOfLabel(r[i]) < IndexOfLabel(r[j])
        /\ termArg = <<>> => r = [i \in 1..9 |-> categoryDiminutives[i].key]

\* A search with an upper-case term that only an abbreviation matches.
C3_Witness ==
  /\ catRet.fn = "searchInCategoryAbbreviations"
  /\ termArg = <<"S", "R">>
  /\ catRet.list = << <<"S", "e", "r", "v", "e", "u", "r", "-", "S", "t", "o", "c", "k", "a", "g", "e">> >>

(***************************************************************************)
(* Claims about Part 2.                                                    *)
(***************************************************************************)

BaseTableOf(p) == IF p = "Devices" THEN "devices" ELSE "clients"

\* C4: on the Devices and Clients pages a failed view query is followed by a
\* query of the base table; when that one succeeds the list holds its rows
\* (for devices with operator_name null, intervention_count 0 and
\* last_intervention_date null), and when it fails too the list is empty.
C4_FallbackToBaseTable ==
  page \in {"Devices", "Clients"} =>
    /\ step.kind = "viewError" => calls[step.call].from = BaseTableOf(page)
    /\ step.kind = "fallbackOk" =>
         /\ Len(rows) = Len(step.data)
         /\ \A k \in 1..Len(rows) :
              rows[k] = IF page = "Devices"
                        THEN [id |-> step.data[k].id,
                              payload |-> step.data[k].payload,
                              operator_name |-> Null,
                              intervention_count |-> 0,
                              last_intervention_date |-> Null]
                        ELSE [id |-> step.data[k].id,
                              payload |-> step.data[k].payload]
    /\ step.kind = "fallbackError" => rows = <<>>

\* The Devices list after a successful fallback: row 1, whose view row
\* carries an operator and two interventions, is shown without them.
C4_Witness ==
  /\ page = "Devices"
  /\ step.kind = "fallbackOk"
  /\ \E k \in 1..Len(rows) :
       /\ rows[k].id = 1
       /\ rows[k].operator_name = Null
       /\ rows[k].intervention_count = 0

\* C6: on the QuotesInvoices page a failed view query is followed by a query
\* of the quotes_invoices table, whose rows the list then shows.
C6_QuotesInvoicesFallback ==
  (page = "QuotesInvoices" /\ step.kind = "viewError") =>
    calls[step.call].from = "quotes_invoices"

\* C10: on a subscribing page every run of the change callback starts one
\* fetch (the fetches are the mount's and one per notification received),
\* and once the page is unmounted no callback runs and no fetch starts.
C10_NotificationsRefetch ==
  /\ [](page \in SubscribingPages /\ phase # "created"
          => Len(calls) = 1 + nCallbacks)
  /\ [][(page \in SubscribingPages /\ phase = "unmounted")
          => (Len(calls') = Len(calls) /\ nCallbacks' = nCallbacks)]_vars

\* A page that refetched on a notification and was then unmounted.
C10_Witness ==
  /\ page \in SubscribingPages
  /\ phase = "unmounted"
  /\ nCallbacks = 1
  /\ Len(calls) = 2

(***************************************************************************)
(* Claims about Part 3 (under SpecDash).                                   *)
(***************************************************************************)

\* The devices table in the order of the two device queries.
DevicesTableRows == OrderDesc(DashDevices)

\* C5: when fetchDashboardData has completed and the backend answered the
\* devices_with_relations view query with an error result, the stock counter,
\* the per-category and per-condition breakdowns and the recent-devices list
\* are those computed from the devices table (they are not left empty).
C5_DashboardFallback ==
  (dstep.kind = "done" /\ dstep.devices.via = "view"
     /\ dstep.devices.state = "error"
     /\ dstep.recent.via = "view" /\ dstep.recent.state = "error")
  => /\ counts.devices = Cardinality({ d \in DashDevices : d.in_stock })
     /\ counts.devicesByCategory = CountBy(DevicesTableRows, "category")
     /\ counts.devicesByCondition = CountBy(DevicesTableRows, "external_condition")
     /\ Len(recentDevices) = Cardinality(DashDevices)

(***************************************************************************)
(* Claims about Part 4 (under SpecCrud).                                   *)
(***************************************************************************)

\* The forms C7 names.
C7Forms == {"DeviceForm", "ClientForm", "OperatorForm", "QuoteInvoiceForm"}

\* C7: when handleSubmit of DeviceForm, ClientForm, OperatorForm or
\* QuoteInvoiceForm has continued after a request that returned an error, it
\* has not navigated (the route is the one before the step and the form is
\* still mounted if it was), and on the mounted form an error message is
\* set, the form data is what it was, and the loading flag is false; when it
\* has continued after a request that returned no error, the route is the
\* list.
C7_SubmitErrorHandling ==
  cScreen \in C7Forms =>
    /\ cstep.kind = "submitError" =>
         /\ cRoute = cstep.route
         /\ cPhase = cstep.phase
         /\ cstep.phase = "mounted" =>
              /\ cError # Null
              /\ formData = cstep.form
              /\ ~cLoading
    /\ cstep.kind = "submitOk" => cRoute = "list"

\* C7's case: a mounted form with entered data whose save returned an error.
C7_Witness ==
  /\ cScreen \in C7Forms
  /\ cstep.kind = "submitError"
  /\ cstep.phase = "mounted"
  /\ cstep.form = 1
  /\ formData = 1
  /\ cError = "save"
  /\ cRoute = "page"

\* C8: when handleDelete of a detail page has continued after a delete
\* request that returned an error, the user has been shown an error message
\* (an error state set for display, or an alert).
C8_DeleteErrorSurfaced ==
  (cScreen \in Details /\ cstep.kind = "deleteError")
    => (cError # Null \/ cAlerts > 0)

\* C9: a write request is issued only in the step in which the user invokes
\* handleSubmit or handleDelete, one per invocation; no other step (the
\* continuation after an error in particular) issues one.
C9_NoRetry ==
  [][ /\ nWrites' <= nWrites + 1
      /\ nWrites' >= nWrites
      /\ nWrites' = nWrites + 1 => nInvocations' = nInvocations + 1 ]_vars

\* C9's case: a save or a delete returned an error, its handler has finished,
\* and nothing is in flight: one invocation, one write.
C9_Witness ==
  /\ cstep.kind \in {"submitError", "deleteError"}
  /\ cReqs = {}
  /\ nInvocations = 1
  /\ nWrites = 1

(***************************************************************************)
(* Claims about Part 5 (under SpecDb).                                     *)
(***************************************************************************)

\* The dependents C11 names: <<parent, child, referencing column>>.
C11Dependents ==
  { <<"devices", "interventions", "device_id">>,
    <<"devices", "intervention_history", "device_id">>,
    <<"devices", "device_files", "device_id">>,
    <<"interventions", "intervention_history", "intervention_id">>,
    <<"interventions", "intervention_files", "intervention_id">>,
    <<"operators", "interventions", "operator_id">>,
    <<"operators", "intervention_history", "operator_id">>,
    <<"clients", "quotes_invoices", "client_id">>,
    <<"clients", "client_orders", "client_id">> }

\* A file row that names operator id as its uploader and that the delete of
\* the operator would leave in place.
UploaderOfSurvivingFile(id) ==
  \/ \E f \in db["device_files"] : f.uploaded_by = id
  \/ \E f \in db["intervention_files"] :
       /\ f.uploaded_by = id
       /\ \E i \in db["interventions"] :
            i.id = f.intervention_id /\ i.operator_id # id

\* C11: a step that removes a parent row removes, in the same step, every
\* row of the dependents named that references it; and a DELETE of an
\* existing row the policy lets the user delete is carried out whatever
\* dependents of those kinds exist (a delete of a device, an intervention
\* or a client always; a delete of an operator unless a file row that stays
\* names it as uploader).
C11_CascadeOnDelete ==
  [][ /\ \A dep \in C11Dependents :
           \A p \in db[dep[1]] :
             p.id \notin Ids(db', dep[1])
               => \A r \in db'[dep[2]] : r[dep[3]] # p.id
      /\ \A t \in {"devices", "interventions", "operators", "clients"} :
           ( /\ dbstep'.op = "DELETE"
             /\ dbstep'.table = t
             /\ dbstep'.id \in Ids(db, t)
             /\ Using(db, session, t, "DELETE", Row(t, dbstep'.id))
             /\ ~(t = "operators" /\ UploaderOfSurvivingFile(dbstep'.id)) )
           => /\ dbstep'.result = "ok"
              /\ dbstep'.id \notin Ids(db', t) ]_vars

\* C11's case: the device of the filled database has been deleted, and with
\* it its intervention, history row, file and the intervention's file.
C11_Witness ==
  /\ dbstep.op = "DELETE"
  /\ dbstep.table = "devices"
  /\ dbstep.result = "ok"
  /\ dbstep.cascaded = 4
  /\ db["devices"] = {}
  /\ db["interventions"] = {}
  /\ db["operators"] # {}

\* C12: in every reachable state of the database every intervention
\* references an existing device and an existing operator, every device's
\* operator_id and client_id is null or references an existing row, every
\* quotes_invoices row references an existing client, and
\* check_data_integrity reports 0 for each of its three checks.
C12_ReferentialIntegrity ==
  /\ \A i \in db["interventions"] :
       /\ \E x \in db["devices"] : x.id = i.device_id
       /\ \E o \in db["operators"] : o.id = i.operator_id
  /\ \A x \in db["devices"] :
       /\ x.operator_id = SqlNull \/ \E o \in db["operators"] : o.id = x.operator_id
       /\ x.client_id = SqlNull \/ \E c \in db["clients"] : c.id = x.client_id
  /\ \A q \in db["quotes_invoices"] : \E c \in db["clients"] : c.id = q.client_id
  /\ check_data_integrity(db) = <<0, 0, 0>>

\* C12's case: after a first statement, an operator has sent an insert or an
\* update of an intervention that names a row that does not exist, and rows
\* are stored.
C12_Witness ==
  /\ dbOps = 2
  /\ dbstep.op \in {"INSERT", "UPDATE"}
  /\ dbstep.table = "interventions"
  /\ dbstep.result = "error"
  /\ db["interventions"] # {}
  /\ db["devices"] # {}

C14WriteTables == {"devices", "clients", "interventions", "quotes_invoices"}

C14ReadTables == {"devices", "clients", "interventions", "operators"}

\* C14: when the signed-in user has no operators row with user_id equal to
\* their own uid, an INSERT, UPDATE or DELETE they send on devices, clients,
\* interventions or quotes_invoices does not succeed and leaves the stored
\* rows of these tables unchanged; a SELECT on devices, clients,
\* interventions or operators returns every stored row to any signed-in user.
C14_RlsOperatorOnly ==
  [][ /\ ( /\ ~\E o \in db["operators"] : o.user_id = session
           /\ dbstep'.op \in {"INSERT", "UPDATE", "DELETE"}
           /\ dbstep'.table \in C14WriteTables )
         => /\ dbstep'.result # "ok"
            /\ \A t \in C14WriteTables : db'[t] = db[t]
      /\ ( dbstep'.op = "SELECT" /\ dbstep'.table \in C14ReadTables )
         => /\ dbstep'.result = "ok"
            /\ dbstep'.cascaded = Cardinality(db[dbstep'.table]) ]_vars

\* C14's case: userB, who has no operators row, has sent an INSERT on devices
\* while a device is stored, and it was denied.
C14_Witness ==
  /\ session = "userB"
  /\ ~\E o \in db["operators"] : o.user_id = "userB"
  /\ dbstep.op = "INSERT"
  /\ dbstep.table = "devices"
  /\ dbstep.result = "denied"
  /\ db["devices"] # {}

\* C15: a statement on operators creates, modifies or removes only rows whose
\* user_id is the uid of the user who sends it: the rows of every other
\* user are the same before and after any step; and a row created by
\* OperatorForm for a new operator carries the signed-in user's id, which is
\* what the new-operator form holds as user_id while it is open.
C15_OwnOperatorRowOnly ==
  /\ [](opForm.open /\ opForm.id = NoId => opForm.user_id = session)
  /\ [][ /\ \A r \in db["operators"] \cup db'["operators"] :
              r.user_id # session =>
                (r \in db["operators"] <=> r \in db'["operators"])
         /\ ( dbOps' # dbOps /\ dbstep'.op = "handleSubmit"
              /\ opForm.id = NoId /\ dbstep'.result = "ok" )
            => /\ db'["operators"] \ db["operators"]
                    = {[id |-> dbstep'.id, user_id |-> session]}
               /\ db["operators"] \subseteq db'["operators"] ]_vars

\* C15's case: userB, signed in while userA's operators row is stored, has
\* created an operator through the new-operator form.
C15_Witness ==
  /\ dbstep.op = "handleSubmit"
  /\ dbstep.result = "ok"
  /\ session = "userB"
  /\ [id |-> dbstep.id, user_id |-> "userB"] \in db["operators"]
  /\ dbstep.id = seq["operators"] - 1
  /\ \E r \in db["operators"] : r.user_id = "userA"

\* C16: overlapping fetches of the Devices and QuotesInvoices pages are not
\* ordered: whenever the successful answer of a call's view query reaches
\* the page, the list becomes that answer, whichever call was issued first;
\* so once two overlapping fetches have both returned, the list is the answer
\* that arrived last.
C16_LastResponseWins ==
  [][ \A c \in DOMAIN calls :
        ( /\ page \in {"Devices", "QuotesInvoices"}
          /\ calls[c].from = FirstRelation(page)
          /\ calls[c].answered
          /\ calls[c].ok
          /\ calls'[c] = Returned )
        => rows' = calls[c].data ]_vars

\* C16's case: two fetches of the Devices page overlapped, the one issued
\* first returned last, and the list shows its older snapshot, which is not
\* what the view holds now.
C16_Witness ==
  /\ page = "Devices"
  /\ Len(calls) = 2
  /\ calls[1] = Returned
  /\ calls[2] = Returned
  /\ step.kind = "viewOk"
  /\ step.call = 1
  /\ rows = step.data
  /\ rows # devices_with_relations(tbl)

(***************************************************************************)
(* Claims about Part 7.                                                    *)
(***************************************************************************)

\* term occurs in field as a contiguous run, letters compared without case.
ContainsIgnoringCase(field, term) ==
  \E i \in 0..(Len(field) - Len(term)) :
    \A k \in 1..Len(term) : toLowerCaseChar(field[i + k]) = toLowerCaseChar(term[k])

\* The fields the Devices search box names.
C17SearchedFields(d) ==
  { d.brand, d.model, d.code, NumberToString(d.id), d.category,
    DeclaredAbbreviation(d.category),
    DeclaredAbbreviation(d.category) \o <<"-">> \o d.code }

\* A dropdown that is not empty equals the device's field.
C17FiltersHold(d) ==
  /\ selected["selectedCategory"] \in {<<>>, d.category}
  /\ selected["selectedCode"] \in {<<>>, d.code}
  /\ selected["selectedCondition"] \in {<<>>, d.external_condition}
  /\ selected["selectedGrade"] \in {<<>>, d.grade}
  /\ \/ selected["selectedOperator"] = <<>>
     \/ d.operator_id # SqlNull
        /\ selected["selectedOperator"] = NumberToString(d.operator_id)
  /\ \/ selected["selectedClient"] = <<>>
     \/ d.client_id # SqlNull
        /\ selected["selectedClient"] = NumberToString(d.client_id)

\* C17: on the Devices list a fetched device is displayed exactly when the
\* search term is a case-insensitive substring of its brand, model, code,
\* id, category, category abbreviation or product code and every non-empty
\* dropdown filter equals its field; with an empty term and no filter every
\* fetched device is displayed; the displayed rows are among the fetched
\* rows.
C17_DevicesFilter ==
  vPage = "Devices" =>
    /\ Displayed =
         SelectSeq(vRows, LAMBDA d :
           /\ \E field \in C17SearchedFields(d) : ContainsIgnoringCase(field, vSearchTerm)
           /\ C17FiltersHold(d))
    /\ (vSearchTerm = <<>> /\ selected = NoFilters) => Displayed = vRows
    /\ \A i \in DOMAIN Displayed : \E j \in DOMAIN vRows : vRows[j] = Displayed[i]

\* C17's case: two devices are fetched, the term "Pr" matches one of them
\* only through its abbreviation PRH, the code filter is set, and that one
\* device is displayed.
C17_Witness ==
  /\ vPage = "Devices"
  /\ Len(vRows) = 2
  /\ vSearchTerm = <<"P", "r">>
  /\ selected["selectedCode"] = <<"A">>
  /\ Len(Displayed) = 1
  /\ Displayed[1].id = 1

\* The fields the search box of the page names.
C18SearchedFields(row) ==
  CASE vPage = "Interventions" ->
         { NumberToString(row.id), row.type, row.device_brand, row.device_model,
           row.operator_name }
    [] vPage = "Operators" -> { NumberToString(row.id), row.full_name, row.role }
    [] OTHER ->
         { NumberToString(row.id), row.client_name, row.client_first_name,
           row.client_company, row.document_type }

\* The page's matchesSearch on a row.
C18MatchesSearch(row) ==
  CASE vPage = "Interventions" ->
         includes(Interventions_searchString(row), toLowerCase(vSearchTerm))
    [] vPage = "Operators" ->
         includes(Operators_searchString(row), toLowerCase(vSearchTerm))
    [] OTHER ->
         includes(QuotesInvoices_searchString(row), toLowerCase(vSearchTerm))

\* C18: on the Interventions, Operators and QuotesInvoices lists a row
\* matches the search term exactly when the term is a case-insensitive
\* substring of one of the searched fields; text that spans two fields never
\* matches.
C18_SearchPerField ==
  vPage \in {"Interventions", "Operators", "QuotesInvoices"} =>
    \A i \in DOMAIN vRows :
      C18MatchesSearch(vRows[i])
        <=> \E field \in C18SearchedFields(vRows[i]) :
              ContainsIgnoringCase(field, vSearchTerm)

\* C19: on the Clients list with a device category selected, the displayed
\* clients are exactly the fetched clients that match the other filters and
\* own a fetched device of that category (device.client_id is the client's
\* numeric id).
C19_ClientsByDeviceCategory ==
  (vPage = "Clients" /\ selected["deviceCategoryFilter"] # <<>>) =>
    Displayed =
      SelectSeq(vRows, LAMBDA client :
        /\ Clients_matchesOtherFilters(client, vSearchTerm, selected)
        /\ \E k \in DOMAIN vDevices :
             /\ vDevices[k].client_id = client.id
             /\ vDevices[k].category = selected["deviceCategoryFilter"])

(***************************************************************************)
(* Claims about Part 8.                                                    *)
(***************************************************************************)

\* C20: the sort state starts with no field and direction asc; handleSort
\* with a field other than the current one sets that field and asc; with the
\* current field it flips the direction and keeps the field; once a field is
\* set the sort field is never empty again.
C20_SortStateMachine ==
  /\ sortField = "" /\ sortDirection = "asc"
  /\ [](sortClicks > 0 => sortField # "")
  /\ [][ sortClicks' # sortClicks =>
           IF sortArg' # sortField
           THEN sortField' = sortArg' /\ sortDirection' = "asc"
           ELSE /\ sortField' = sortField
                /\ sortDirection' = (IF sortDirection = "asc" THEN "desc" ELSE "asc") ]_vars

\* C20's case: the header of id was clicked twice and then once more: the
\* direction went asc, desc, asc and the field stayed id.
C20_Witness ==
  /\ sortPage = "Devices"
  /\ sortClicks = 3
  /\ sortArg = "id"
  /\ sortField = "id"
  /\ sortDirection = "asc"

\* x comes no later than y in ascending order, strings without case, null
\* placed first (nullsFirst) or last.
C21NoLater(x, y, nullsFirst) ==
  IF x.type = "null" \/ y.type = "null"
  THEN IF nullsFirst THEN x.type = "null" ELSE y.type = "null"
  ELSE IF x.type = "string"
       THEN ~StringLess(toLowerCase(y.text), toLowerCase(x.text))
       ELSE x.num <= y.num

\* C21: every list the page can show is a permutation of the filtered list;
\* with no sort field it is the filtered list; with a sort field adjacent
\* rows are in non-decreasing (asc) or non-increasing (desc) order of the
\* field, strings compared without case, rows with a null field included
\* (at one end of the order).
C21_SortedList ==
  \A shown \in sortedRows :
    /\ Len(shown) = Len(sortRows)
    /\ \A r \in { sortRows[i] : i \in DOMAIN sortRows } :
         Cardinality({ i \in DOMAIN shown : shown[i] = r })
           = Cardinality({ i \in DOMAIN sortRows : sortRows[i] = r })
    /\ sortField = "" => shown = sortRows
    /\ sortField # "" =>
         \E nullsFirst \in BOOLEAN :
           \A i \in 1..(Len(shown) - 1) :
             IF sortDirection = "asc"
             THEN C21NoLater(shown[i][sortField], shown[i + 1][sortField], nullsFirst)
             ELSE C21NoLater(shown[i + 1][sortField], shown[i][sortField], nullsFirst)

(***************************************************************************)
(* Claims about Part 9.                                                    *)
(***************************************************************************)
\* The sum of the amounts of a set of documents.
RECURSIVE C22Sum(_)
C22Sum(quotes) ==
  IF quotes = {} THEN 0
  ELSE LET q == CHOOSE x \in quotes : TRUE
       IN  q.amount + C22Sum(quotes \ {q})

\* C22: for every client the view's total_amount is the sum of the amounts
\* of the client's quotes_invoices rows (0 without any), however many
\* devices the client owns; device_count and quote_invoice_count are the
\* numbers of its devices and of its quotes_invoices rows.
C22_ViewTotals ==
  \A c \in twClients :
    LET row == clients_with_devices_row(c, twDevices, twQuotes)
        qs == { q \in twQuotes : q.client_id = c }
    IN  /\ row.total_amount = C22Sum(qs)
        /\ row.device_count = Cardinality({ d \in twDevices : d.client_id = c })
        /\ row.quote_invoice_count = Cardinality(qs)

(***************************************************************************)
(* Claims about Part 3 (the counters of the Dashboard).                    *)
(***************************************************************************)
\* The sum of the values of a counter per key.
RECURSIVE C23Total(_)
C23Total(byKey) ==
  IF DOMAIN byKey = {} THEN 0
  ELSE LET k == CHOOSE x \in DOMAIN byKey : TRUE
       IN  byKey[k] + C23Total([x \in DOMAIN byKey \ {k} |-> byKey[x]])

\* The counters are mutually consistent.
C23Consistent(c) ==
  /\ c.activeInterventions =
       (IF "En cours" \in DOMAIN c.interventionsByStatus
        THEN c.interventionsByStatus["En cours"] ELSE 0)
  /\ C23Total(c.interventionsByStatus) = C23Total(c.interventionsByType)

\* C23: whenever fetchDashboardData has completed, activeInterventions is
\* the 'En cours' entry of interventionsByStatus (0 if absent) and the
\* values of interventionsByStatus and of interventionsByType sum to the
\* same number, whatever other users did to the interventions table during
\* the fetch.
C23_CountersConsistent ==
  (dPhase = "mounted" /\ ~dLoading) => C23Consistent(counts)

(***************************************************************************)
(* Claims about Part 10.                                                   *)
(***************************************************************************)
\* C24: once no search is in flight, searchResults is the result of the
\* query for the current search term, and four empty lists when the term
\* is empty, whatever the order in which the answers arrived.
C24_ResultsMatchTerm ==
  searches = {} =>
    searchResults = (IF dashSearchTerm = <<>> THEN EmptyResults
                     ELSE SearchResult(dashSearchTerm))

(***************************************************************************)
(* Claims about Part 11.                                                   *)
(***************************************************************************)
\* The rows of device_files and the objects of the bucket correspond.
C25InSync ==
  /\ \A r \in fileRows : r.file_url \in objects
  /\ \A o \in objects : \E r \in fileRows : r.file_url = o

\* C25: in every state where no upload or file deletion is in progress, a
\* device_files row exists if and only if an object exists in the bucket
\* at that row's file_url, whichever backend steps failed.
C25_FilesInSync == fileCall = NoFileCall => C25InSync

(***************************************************************************)
(* Claims about Part 12.                                                   *)
(***************************************************************************)
\* C26: whenever handleDelete of a detail page has navigated back to the
\* list, the targeted record no longer exists in the backend, whoever is
\* signed in: an operator, a user without operators row, or (on
\* OperatorDetail) a user other than the row's owner.
C26_DeletedBeforeNavigate ==
  (detRoute = "list" /\ detStep.kind = "handleDelete") =>
    detId \notin Ids(db, DetailTable(detPage))

(***************************************************************************)
(* Claims about Part 13.                                                   *)
(***************************************************************************)
\* C27: opening an existing client in ClientForm and submitting without
\* changing any field leaves the stored address as it was, also for a
\* client stored without number, street, postal_code and city.
C27_AddressRoundTrip ==
  (addrStep.kind = "handleSubmit" /\ addrStep.edits = 0) =>
    addrClient.address = addrStep.before

====
